---------------------------- MODULE Spec2Model ----------------------------
(***************************************************************************)
(* Model of the BIG-IP configuration manager CloudBigIP (src/_f5.py):      *)
(* the desired-state exclusion policy (has_partition), the reconciliation  *)
(* pass regenerate_config_f5 -> _apply_config with every adapter call as   *)
(* one step, and the node sweep cleanup_nodes.  The load balancer is the   *)
(* record lb, holding one collection per resource kind.                    *)
(***************************************************************************)
EXTENDS Integers, Sequences, FiniteSets, TLC

VARIABLES
    partitions,   \* self._partitions, the configured partition list
    config,       \* the desired model the builder returned for this cloud state
    lb,           \* the load balancer's resource store
    pc,           \* position of regenerate_config_f5 / _apply_config
    plist,        \* partitions of unique_partitions still to be processed
    part,         \* the loop variable `partition` of _apply_config
    work,         \* the lists _apply_config computed and has not yet consumed
    ops,          \* adapter operations issued so far in the current pass
    result,       \* what regenerate_config_f5 returned: none | False | True | raise
    err,          \* the exception that ended the last pass, or "none"
    prevOK,       \* the pass before the current one completed (returned False)
    hp            \* _create_config_marathon: its applications, place and dict f5

vars == <<partitions, config, lb, pc, plist, part, work, ops, result, err, prevOK, hp>>

-----------------------------------------------------------------------------
(* Bounds of the model.                                                    *)

\* Backend hosts are the addresses 1 .. NumHosts.
NumHosts == 2

\* Longest application list handed to the exclusion-policy runs.
MaxApps == 2

-----------------------------------------------------------------------------
(* Sequences and the diffing primitives.                                   *)

Range(s) == {s[i] : i \in 1..Len(s)}

RECURSIVE SeqOfSet(_)
\* A set listed in a fixed order (the order a collection or dict is iterated).
SeqOfSet(S) ==
    IF S = {} THEN <<>>
    ELSE LET x == CHOOSE y \in S : TRUE IN <<x>> \o SeqOfSet(S \ {x})

RECURSIVE Filter(_, _)
\* [x for x in s if x \in keep], order kept.
Filter(s, keep) ==
    IF s = <<>> THEN <<>>
    ELSE (IF Head(s) \in keep THEN <<Head(s)>> ELSE <<>>) \o Filter(Tail(s), keep)

\* common.list_diff(a, b): the elements of a that are not in b, in a's order.
list_diff(a, b) == Filter(a, Range(a) \ Range(b))

\* common.list_intersect(a, b): the elements of a that are in b, in a's order.
list_intersect(a, b) == Filter(a, Range(a) \cap Range(b))

RECURSIVE Dedup(_)
\* list(set(s)): every element once.
Dedup(s) ==
    IF s = <<>> THEN <<>>
    ELSE <<Head(s)>> \o Dedup(Filter(Tail(s), Range(Tail(s)) \ {Head(s)}))

\* x.startswith(pre) on names, which are sequences of tokens.
StartsWith(x, pre) == Len(pre) <= Len(x) /\ SubSeq(x, 1, Len(pre)) = pre

\* A function with key k removed / set.
Drop(f, k) == [x \in DOMAIN f \ {k} |-> f[x]]
Put(f, k, v) == [x \in DOMAIN f \cup {k} |-> IF x = k THEN v ELSE f[x]]

Empty == [x \in {} |-> 0]

-----------------------------------------------------------------------------
(* The exclusion policy.                                                   *)

\* has_partition without its first test, for an application without partition.
HasPartitionNoEmptyTest(ps, app_partition) ==
    IF "*" \in ps THEN "True"
    ELSE IF Cardinality(ps) = 0 /\ app_partition = "" THEN "raise"
    ELSE IF app_partition \in ps THEN "True"
    ELSE "False"

\* has_partition(partitions, app_partition), with the way it ends:
\* "True", "False", or "raise" for the exception of its third test.
\* An application without a partition carries "".
HasPartitionOutcome(ps, app_partition) ==
    IF app_partition = "" THEN "False"
    ELSE IF "*" \in ps THEN "True"
    ELSE IF Cardinality(ps) = 0 /\ app_partition = "" THEN "raise"
    ELSE IF app_partition \in ps THEN "True"
    ELSE "False"

has_partition(ps, app_partition) == HasPartitionOutcome(ps, app_partition) = "True"

-----------------------------------------------------------------------------
(* The desired model.  A service name is the sequence of tokens            *)
(* <<service, frontend, port>> that the builders join with "_"; a monitor  *)
(* after the first gets the token of its index appended.  A member name    *)
(* "host:port" is the pair <<host, port>>.                                 *)

Hosts == 1..NumHosts
MemberPort == "8080"
VirtualPort == "80"

\* node + ':' + str(poolMemberPort)
MemberName(host, port) == <<host, port>>
\* name, port = member.split(':')
MemberHost(member) == member[1]

\* str(index) for the indexes the model uses.
Str(i) == <<"0", "1", "2", "3">>[i + 1]

\* Tokens of a pool's monitor string besides the monitor paths.
AndToken == <<"and", <<>> >>
SpaceToken == <<" ", <<>> >>

\* The health entries of a service: the first is named after the service,
\* entry i > 0 gets the suffix '_' + str(i).
HealthList(name, protos) ==
    [i \in 1..Len(protos) |->
        [name |-> IF i = 1 THEN name ELSE name \o <<Str(i - 1)>>,
         protocol |-> protos[i].protocol,
         interval |-> protos[i].interval]]

RECURSIVE MonitorsExpr(_, _)
\* The pool's monitor string: "/partition/name" of every health entry joined
\* by ' and '; <<>> stands for None (no health entry).
MonitorsExpr(partition, health) ==
    IF health = <<>> THEN <<>>
    ELSE IF Len(health) = 1 THEN << <<partition, health[1].name>> >>
    ELSE MonitorsExpr(partition, SubSeq(health, 1, Len(health) - 1))
            \o <<AndToken, <<partition, health[Len(health)].name>> >>

\* The profile list of a virtual server in http mode without SSL profile.
HttpProfiles == << [partition |-> "Common", name |-> "http"] >>

\* One entry f5_service of the desired model, individually managed.
PlainService(partition, name, addr, protos, hosts, balance) ==
    LET health == HealthList(name, protos) IN
    [partition |-> partition,
     iapp |-> "none",
     virtual_address |-> addr,
     virtual |-> [enabled |-> TRUE,
                  ipProtocol |-> "tcp",
                  destination |-> <<partition, addr, VirtualPort>>,
                  pool |-> <<partition, name>>,
                  profiles |-> HttpProfiles],
     pool |-> [monitor |-> MonitorsExpr(partition, health),
               loadBalancingMode |-> balance],
     health |-> health,
     nodes |-> {MemberName(h, MemberPort) : h \in hosts}]

\* One entry f5_service of the desired model, managed by an iApp.
IappService(partition, template, hosts) ==
    [partition |-> partition,
     iapp |-> template,
     virtual_address |-> "none",
     virtual |-> [enabled |-> TRUE, ipProtocol |-> "tcp",
                  destination |-> <<partition, "none", VirtualPort>>,
                  pool |-> <<partition, <<>> >>, profiles |-> <<>>],
     pool |-> [monitor |-> <<>>, loadBalancingMode |-> "round-robin"],
     health |-> <<>>,
     nodes |-> {MemberName(h, MemberPort) : h \in hosts}]

IsIapp(cfg, x) == cfg[x].iapp # "none"

\* config.keys(), in the dict's iteration order.
ConfigKeys(cfg) == SeqOfSet(DOMAIN cfg)

\* marathon_virtual_list and marathon_pool_list of a partition.
marathon_virtual_list(cfg, partition) ==
    Filter(ConfigKeys(cfg),
           {x \in DOMAIN cfg : cfg[x].partition = partition /\ ~IsIapp(cfg, x)})

\* marathon_iapp_list of a partition.
marathon_iapp_list(cfg, partition) ==
    Filter(ConfigKeys(cfg),
           {x \in DOMAIN cfg : cfg[x].partition = partition /\ IsIapp(cfg, x)})

RECURSIVE HealthNamesOf(_, _)
\* One v per health entry of v that carries a protocol.
HealthNamesOf(v, health) ==
    IF health = <<>> THEN <<>>
    ELSE (IF Head(health).protocol # "absent" THEN <<v>> ELSE <<>>)
            \o HealthNamesOf(v, Tail(health))

RECURSIVE HealthcheckListOf(_, _)
HealthcheckListOf(cfg, vs) ==
    IF vs = <<>> THEN <<>>
    ELSE HealthNamesOf(Head(vs), cfg[Head(vs)].health)
            \o HealthcheckListOf(cfg, Tail(vs))

\* marathon_healthcheck_list of a partition.
marathon_healthcheck_list(cfg, partition) ==
    HealthcheckListOf(cfg, marathon_virtual_list(cfg, partition))

-----------------------------------------------------------------------------
(* The load balancer.  lb is a record of collections, one per resource     *)
(* kind, each a function from <<partition, name>> to the resource's data;  *)
(* lb.order is the order in which a collection lists the partitions and    *)
(* lb.folders the folders sys.folders returns.  An adapter call is an      *)
(* operator from the store to an outcome: the exception it raises (or      *)
(* "none"), the store afterwards and the operations it issued.             *)

HTTPError == "iControlUnexpectedHTTPError"
\* The exceptions regenerate_config_f5 turns into the retry signal.
CaughtErrors == {"ConnectionError", "F5SDKError", "BigIPInvalidURL", HTTPError}
\* Exceptions a call to the adapter can end with at any time.
AdapterErrors == CaughtErrors \cup {"ReadTimeout"}

NoPool == <<"None", <<>> >>

Ok(b, log) == [err |-> "none", lb |-> b, log |-> log]
Bad(kind, b) == [err |-> kind, lb |-> b, log |-> <<>>]
\* An exception after the operations of outcome a were applied.
BadAfter(kind, a) == [err |-> kind, lb |-> a.lb, log |-> a.log]
\* One operation issued: w tells whether it wrote to the load balancer.
E(op, partition, name, w) == [op |-> op, part |-> partition, name |-> name, w |-> w]

Rank(b, p) == CHOOSE i \in 1..Len(b.order) : b.order[i] = p

\* The names of a collection that lie in a partition, in collection order.
NamesIn(coll, partition) ==
    SeqOfSet({k[2] : k \in {x \in DOMAIN coll : x[1] = partition}})

get_iapp_list(b, partition) == NamesIn(b.iapps, partition)
get_pool_list(b, partition) == NamesIn(b.pools, partition)
get_virtual_list(b, partition) == NamesIn(b.virtuals, partition)
get_node_list(b, partition) == NamesIn(b.nodes, partition)

\* get_healthcheck_list: name -> type; a tcp monitor overwrites the entry of
\* an http monitor of the same name.
get_healthcheck_list(b, partition) ==
    LET h == Range(NamesIn(b.http, partition))
        t == Range(NamesIn(b.tcp, partition))
    IN [n \in h \cup t |-> IF n \in t THEN "tcp" ELSE "http"]

\* get_pool: the first pool of the whole collection that bears the name.
get_pool(b, partition, name) ==
    LET cands == {k \in DOMAIN b.pools : k[2] = name} IN
    IF cands = {} THEN NoPool
    ELSE CHOOSE k \in cands : \A k2 \in cands : Rank(b, k[1]) <= Rank(b, k2[1])

\* get_pool_member_list: the names of the members of get_pool's pool.
get_pool_member_list(b, partition, pool) ==
    LET p == get_pool(b, partition, pool)
        ms == SeqOfSet(DOMAIN b.members[p])
    IN [i \in 1..Len(ms) |-> ms[i][2]]

\* What the load balancer refuses: deleting what is still referenced and
\* referring to what does not exist.
PoolReferenced(b, k) == \E v \in DOMAIN b.virtuals : b.virtuals[v].pool = k
MonitorReferenced(b, mk) ==
    \E k \in DOMAIN b.pools : b.pools[k].hasMonitor /\ mk \in Range(b.pools[k].monitor)
NodeReferenced(b, nk) ==
    \E k \in DOMAIN b.pools : \E m \in DOMAIN b.members[k] :
        m[1] = nk[1] /\ MemberHost(m[2]) = nk[2]
MonitorsExist(b, expr) ==
    \A t \in Range(expr) :
        t \in {AndToken, SpaceToken} \/ t \in DOMAIN b.http \cup DOMAIN b.tcp

\* val.strip() of a monitor string.
RECURSIVE Strip(_)
Strip(s) ==
    IF s = <<>> THEN s
    ELSE IF Head(s) = SpaceToken THEN Strip(Tail(s))
    ELSE IF s[Len(s)] = SpaceToken THEN Strip(SubSeq(s, 1, Len(s) - 1))
    ELSE s

\* The pool data the load balancer keeps for the monitor and mode it is sent:
\* no monitor attribute for None, the monitor string with a trailing blank
\* otherwise.
StoredPool(data) ==
    [hasMonitor |-> data.monitor # <<>>,
     monitor |-> IF data.monitor = <<>> THEN <<>> ELSE data.monitor \o <<SpaceToken>>,
     loadBalancingMode |-> data.loadBalancingMode]

\* State of a member or node after it is set to user-up: 'up' with a monitor
\* attached, 'unchecked' without.
UpState(monitored) == IF monitored THEN "up" ELSE "unchecked"
UserUp(monitored) == [state |-> UpState(monitored), session |-> "user-enabled"]

(* ---- pools ---- *)

pool_create(b, partition, pool, data) ==
    IF <<partition, pool>> \in DOMAIN b.pools \/ ~MonitorsExist(b, data.pool.monitor)
    THEN Bad(HTTPError, b)
    ELSE Ok([b EXCEPT !.pools = Put(@, <<partition, pool>>, StoredPool(data.pool)),
                      !.members = Put(@, <<partition, pool>>, Empty)],
            <<E("pool_create", partition, pool, TRUE)>>)

pool_delete(b, partition, pool) ==
    LET p == get_pool(b, partition, pool) IN
    IF p = NoPool THEN Bad("AttributeError", b)
    ELSE IF PoolReferenced(b, p) THEN Bad(HTTPError, b)
    ELSE Ok([b EXCEPT !.pools = Drop(@, p), !.members = Drop(@, p)],
            <<E("pool_delete", partition, pool, TRUE)>>)

\* genChange of pool_update: only the attributes the live pool has are compared.
PoolNoChange(live, data) ==
    /\ live.hasMonitor => data.monitor = Strip(live.monitor)
    /\ data.loadBalancingMode = live.loadBalancingMode

pool_update(b, partition, pool, data) ==
    LET p == get_pool(b, partition, pool) IN
    IF p = NoPool THEN Bad("AttributeError", b)
    ELSE IF PoolNoChange(b.pools[p], data.pool)
    THEN Ok(b, <<E("pool_update", partition, pool, FALSE)>>)
    ELSE IF ~MonitorsExist(b, data.pool.monitor) THEN Bad(HTTPError, b)
    ELSE Ok([b EXCEPT !.pools[p] = StoredPool(data.pool)],
            <<E("pool_update", partition, pool, TRUE)>>)

(* ---- pool members ---- *)

member_create(b, partition, pool, member) ==
    LET p == get_pool(b, partition, pool)
        mk == <<partition, member>>
        nk == <<partition, MemberHost(member)>>
    IN
    IF p = NoPool THEN Bad("AttributeError", b)
    ELSE IF mk \in DOMAIN b.members[p] THEN Bad(HTTPError, b)
    ELSE Ok([b EXCEPT !.members[p] = Put(@, mk, UserUp(b.pools[p].hasMonitor)),
                      !.nodes = IF nk \in DOMAIN @ THEN @ ELSE Put(@, nk, UserUp(FALSE))],
            <<E("member_create", partition, <<pool, member>>, TRUE)>>)

member_delete(b, partition, pool, member) ==
    LET p == get_pool(b, partition, pool)
        mk == <<partition, member>>
    IN
    IF p = NoPool THEN Bad("AttributeError", b)
    ELSE IF mk \notin DOMAIN b.members[p] THEN Bad(HTTPError, b)
    ELSE Ok([b EXCEPT !.members[p] = Drop(@, mk)],
            <<E("member_delete", partition, <<pool, member>>, TRUE)>>)

\* A test of the state alone.
IsUpOrUnchecked(obj) == obj.state \in {"up", "unchecked"}

\* A test of the session alone.
IsEnabled(obj) == obj.session \in {"user-enabled", "monitor-enabled"}

\* The test member_update and cleanup_nodes make before they modify.
IsUpAndEnabled(obj) ==
    obj.state \in {"up", "unchecked"} /\ obj.session \in {"user-enabled", "monitor-enabled"}

member_update(b, partition, pool, member) ==
    LET p == get_pool(b, partition, pool)
        mk == <<partition, member>>
    IN
    IF p = NoPool THEN Bad("AttributeError", b)
    ELSE IF mk \notin DOMAIN b.members[p] THEN Bad(HTTPError, b)
    ELSE IF IsUpAndEnabled(b.members[p][mk])
    THEN Ok(b, <<E("member_update", partition, <<pool, member>>, FALSE)>>)
    ELSE Ok([b EXCEPT !.members[p][mk] = UserUp(b.pools[p].hasMonitor)],
            <<E("member_update", partition, <<pool, member>>, TRUE)>>)

(* ---- virtual servers and virtual addresses ---- *)

\* What the load balancer keeps of the data of a virtual server.
StoredVirtual(data) ==
    [enabled |-> data.enabled, ipProtocol |-> data.ipProtocol,
     destination |-> data.destination, pool |-> data.pool,
     profiles |-> data.profiles]

virtual_create(b, partition, virtual, data) ==
    LET va == <<partition, data.virtual_address>> IN
    IF <<partition, virtual>> \in DOMAIN b.virtuals
       \/ data.virtual.pool \notin DOMAIN b.pools
    THEN Bad(HTTPError, b)
    ELSE Ok([b EXCEPT !.virtuals = Put(@, <<partition, virtual>>, StoredVirtual(data.virtual)),
                      !.vaddrs = IF va \in DOMAIN @ THEN @ ELSE Put(@, va, "yes")],
            <<E("virtual_create", partition, virtual, TRUE)>>)

virtual_delete(b, partition, virtual) ==
    IF <<partition, virtual>> \notin DOMAIN b.virtuals THEN Bad(HTTPError, b)
    ELSE Ok([b EXCEPT !.virtuals = Drop(@, <<partition, virtual>>)],
            <<E("virtual_delete", partition, virtual, TRUE)>>)

\* A comparison of the profile lists as they stand.
SameProfileOrder(a, c) == a = c

\* sorted(profiles) == sorted(data['profiles']): the same entries, each as often.
Count(s, x) == Cardinality({i \in 1..Len(s) : s[i] = x})
SameProfiles(a, c) ==
    /\ Len(a) = Len(c)
    /\ \A x \in Range(a) \cup Range(c) : Count(a, x) = Count(c, x)

\* no_change of virtual_update: the attributes of the live virtual server that
\* the desired data also holds.
VirtualNoChange(live, data) ==
    /\ data.enabled = live.enabled
    /\ data.ipProtocol = live.ipProtocol
    /\ data.destination = live.destination
    /\ data.pool = live.pool

\* The first half of virtual_update: get_virtual_address, then
\* virtual_address_create or virtual_address_update.
EnsureVirtualAddress(b, partition, addr) ==
    LET va == <<partition, addr>> IN
    IF va \notin DOMAIN b.vaddrs
    THEN Ok([b EXCEPT !.vaddrs = Put(@, va, "yes")],
            <<E("virtual_address_create", partition, addr, TRUE)>>)
    ELSE IF b.vaddrs[va] = "no"
    THEN Ok([b EXCEPT !.vaddrs[va] = "yes"],
            <<E("virtual_address_update", partition, addr, TRUE)>>)
    ELSE Ok(b, <<E("virtual_address_update", partition, addr, FALSE)>>)

virtual_update(b, partition, virtual, data) ==
    LET a == EnsureVirtualAddress(b, partition, data.virtual_address)
        k == <<partition, virtual>>
    IN
    IF k \notin DOMAIN a.lb.virtuals THEN BadAfter(HTTPError, a)
    ELSE IF VirtualNoChange(a.lb.virtuals[k], data.virtual)
            /\ SameProfiles(a.lb.virtuals[k].profiles, data.virtual.profiles)
    THEN Ok(a.lb, a.log \o <<E("virtual_update", partition, virtual, FALSE)>>)
    ELSE IF data.virtual.pool \notin DOMAIN a.lb.pools THEN BadAfter(HTTPError, a)
    ELSE Ok([a.lb EXCEPT !.virtuals[k] = StoredVirtual(data.virtual)],
            a.log \o <<E("virtual_update", partition, virtual, TRUE)>>)

(* ---- health monitors ---- *)

\* Fields that are picked for every protocol an entry names.
HealthFieldsAnyProtocol(item) == IF item.protocol = "absent" THEN "KeyError" ELSE "none"

\* get_healthcheck_fields: the exception it ends with for the entry's protocol.
HealthFieldsError(item) ==
    IF item.protocol = "absent" THEN "KeyError"
    ELSE IF item.protocol \in {"http", "tcp"} THEN "none"
    ELSE "Exception"

healthcheck_create(b, partition, item) ==
    LET k == <<partition, item.name>> IN
    IF HealthFieldsError(item) # "none" THEN Bad(HealthFieldsError(item), b)
    ELSE IF item.protocol = "http"
    THEN IF k \in DOMAIN b.http THEN Bad(HTTPError, b)
         ELSE Ok([b EXCEPT !.http = Put(@, k, [interval |-> item.interval])],
                 <<E("healthcheck_create", partition, item.name, TRUE)>>)
    ELSE IF k \in DOMAIN b.tcp THEN Bad(HTTPError, b)
         ELSE Ok([b EXCEPT !.tcp = Put(@, k, [interval |-> item.interval])],
                 <<E("healthcheck_create", partition, item.name, TRUE)>>)

healthcheck_delete(b, partition, hc, hc_type) ==
    LET k == <<partition, hc>> IN
    IF MonitorReferenced(b, k) THEN Bad(HTTPError, b)
    ELSE IF hc_type = "http"
    THEN IF k \notin DOMAIN b.http THEN Bad(HTTPError, b)
         ELSE Ok([b EXCEPT !.http = Drop(@, k)],
                 <<E("healthcheck_delete", partition, hc, TRUE)>>)
    ELSE IF k \notin DOMAIN b.tcp THEN Bad(HTTPError, b)
         ELSE Ok([b EXCEPT !.tcp = Drop(@, k)],
                 <<E("healthcheck_delete", partition, hc, TRUE)>>)

\* healthcheck_update(partition, hc, data): the monitor named hc is loaded
\* under the kind of data's protocol and compared with data's fields, the
\* name among them.
healthcheck_update(b, partition, hc, item) ==
    LET k == <<partition, hc>> IN
    IF item.protocol = "absent" THEN Bad("KeyError", b)
    ELSE IF item.protocol = "http" /\ k \notin DOMAIN b.http THEN Bad(HTTPError, b)
    ELSE IF item.protocol = "tcp" /\ k \notin DOMAIN b.tcp THEN Bad(HTTPError, b)
    ELSE IF HealthFieldsError(item) # "none" THEN Bad(HealthFieldsError(item), b)
    ELSE LET live == IF item.protocol = "http" THEN b.http[k] ELSE b.tcp[k] IN
         IF item.name = hc /\ item.interval = live.interval
         THEN Ok(b, <<E("healthcheck_update", partition, <<hc, item.name>>, FALSE)>>)
         ELSE Ok(IF item.protocol = "http"
                 THEN [b EXCEPT !.http[k] = [interval |-> item.interval]]
                 ELSE [b EXCEPT !.tcp[k] = [interval |-> item.interval]],
                 <<E("healthcheck_update", partition, <<hc, item.name>>, TRUE)>>)

(* ---- iApps ---- *)

\* iapp_build_definition: one table row [addr, port, '0'] per node.
iapp_build_definition(entry) ==
    [template |-> entry.iapp,
     rows |-> {<<MemberHost(n), n[2], "0">> : n \in entry.nodes}]

iapp_create(b, partition, name, entry) ==
    IF <<partition, name>> \in DOMAIN b.iapps THEN Bad(HTTPError, b)
    ELSE Ok([b EXCEPT !.iapps = Put(@, <<partition, name>>, iapp_build_definition(entry))],
            <<E("iapp_create", partition, name, TRUE)>>)

iapp_delete(b, partition, name) ==
    IF <<partition, name>> \notin DOMAIN b.iapps THEN Bad(HTTPError, b)
    ELSE Ok([b EXCEPT !.iapps = Drop(@, <<partition, name>>)],
            <<E("iapp_delete", partition, name, TRUE)>>)

\* An update that is left out when the live iApp holds the definition already.
IappUpdateOnChange(b, partition, name, entry) ==
    IF <<partition, name>> \notin DOMAIN b.iapps THEN Bad(HTTPError, b)
    ELSE IF b.iapps[<<partition, name>>] = iapp_build_definition(entry) THEN Ok(b, <<>>)
    ELSE Ok([b EXCEPT !.iapps[<<partition, name>>] = iapp_build_definition(entry)],
            <<E("iapp_update", partition, name, TRUE)>>)

\* iapp_update applies the definition whatever the live iApp holds.
iapp_update(b, partition, name, entry) ==
    IF <<partition, name>> \notin DOMAIN b.iapps THEN Bad(HTTPError, b)
    ELSE Ok([b EXCEPT !.iapps[<<partition, name>>] = iapp_build_definition(entry)],
            <<E("iapp_update", partition, name, TRUE)>>)

(* ---- nodes ---- *)

node_delete(b, node_name, partition) ==
    LET k == <<partition, node_name>> IN
    IF k \notin DOMAIN b.nodes \/ NodeReferenced(b, k) THEN Bad(HTTPError, b)
    ELSE Ok([b EXCEPT !.nodes = Drop(@, k)],
            <<E("node_delete", partition, node_name, TRUE)>>)

RECURSIVE ScanMembers(_, _, _, _, _)
\* The inner loop of cleanup_nodes over the member list of one pool: a member
\* whose host is still in node_list takes it out of the list, and its node is
\* set to user-up unless it is up or unchecked with an enabled session.
ScanMembers(b, partition, member_list, node_list, log) ==
    IF member_list = <<>> THEN [lb |-> b, node_list |-> node_list, log |-> log]
    ELSE LET name == MemberHost(Head(member_list))
             k == <<partition, name>>
         IN
         IF name \notin Range(node_list)
         THEN ScanMembers(b, partition, Tail(member_list), node_list, log)
         ELSE LET rest == Filter(node_list, Range(node_list) \ {name}) IN
              IF IsUpAndEnabled(b.nodes[k])
              THEN ScanMembers(b, partition, Tail(member_list), rest,
                               Append(log, E("node_check", partition, name, FALSE)))
              ELSE ScanMembers([b EXCEPT !.nodes[k] = UserUp(FALSE)], partition,
                               Tail(member_list), rest,
                               Append(log, E("node_modify", partition, name, TRUE)))

-----------------------------------------------------------------------------
(* The pass: regenerate_config_f5 and _apply_config.                       *)

\* folder.name.endswith(".app"), for the folder names of the model.
IsAppFolder(f) == f \in {"svc.app"}

\* get_partitions: the configured list, or with '*' the folders that are
\* neither Common nor / nor an application folder.
get_partitions(b, ps) ==
    IF "*" \in Range(ps)
    THEN Filter(b.folders,
                {f \in Range(b.folders) : f # "Common" /\ f # "/" /\ ~IsAppFolder(f)})
    ELSE ps

\* The loops taken kind by kind: health monitors, pools, virtual servers.
ApplyOrderByKind == <<"hdel", "hadd", "hupd", "pdel", "padd", "pupd", "vdel", "vadd", "vupd">>

\* The loops with the pool updates moved ahead of the health monitors.
ApplyOrderPoolUpdateEarly == <<"vdel", "pdel", "pupd", "hdel", "hadd", "padd", "vadd", "hupd", "vupd">>

\* The loops with the creates ahead of the deletes and the pools created last.
ApplyOrderCreatesFirst == <<"hadd", "vadd", "padd", "hdel", "pdel", "vdel", "hupd", "pupd", "vupd">>

\* The loops of _apply_config after the iApp phase, in the order they run.
ApplyOrder == <<"vdel", "pdel", "hdel", "hadd", "padd", "vadd", "hupd", "pupd", "vupd">>

WorkEmpty ==
    [f5i |-> <<>>, idel |-> <<>>, iadd |-> <<>>, iupd |-> <<>>,
     f5v |-> <<>>, f5p |-> <<>>, f5h |-> <<>>,
     vdel |-> <<>>, pdel |-> <<>>, hdel |-> <<>>, hadd |-> <<>>, padd |-> <<>>,
     vadd |-> <<>>, hupd |-> <<>>, pupd |-> <<>>, vupd |-> <<>>,
     healthcheck_intersect |-> <<>>,
     mpools |-> <<>>, mpool |-> <<>>, f5m |-> <<>>,
     mdel |-> <<>>, madd |-> <<>>, mupd |-> <<>>,
     cpools |-> <<>>, nlist |-> <<>>]

\* The names left once the names that start with a desired iApp's name are
\* taken out.
NotOwnedByIapp(names, iapps) ==
    Filter(names, {x \in Range(names) : \A i \in Range(iapps) : ~StartsWith(x, i)})

RECURSIVE ItemsOf(_, _)
\* for hc in hcs: for item in config[hc]['health']: the pairs <<hc, item>>.
ItemsOf(cfg, hcs) ==
    IF hcs = <<>> THEN <<>>
    ELSE [i \in 1..Len(cfg[Head(hcs)].health) |-> <<Head(hcs), cfg[Head(hcs)].health[i]>>]
            \o ItemsOf(cfg, Tail(hcs))

\* The lists with the operands of the pool differences exchanged.
ComputeListsExchanged(w, cfg, b, partition) ==
    LET mi == marathon_iapp_list(cfg, partition)
        mv == marathon_virtual_list(cfg, partition)
        mh == marathon_healthcheck_list(cfg, partition)
        dict == get_healthcheck_list(b, partition)
        f5p == NotOwnedByIapp(get_pool_list(b, partition), mi)
        f5v == NotOwnedByIapp(get_virtual_list(b, partition), mi)
        f5h == NotOwnedByIapp(SeqOfSet(DOMAIN dict), mi)
        hd == list_diff(f5h, mh)
        padd == list_diff(f5p, mv)
        pupd == list_intersect(mv, f5p)
    IN [w EXCEPT
          !.f5v = f5v, !.f5p = f5p, !.f5h = f5h,
          !.vdel = list_diff(f5v, mv),
          !.pdel = list_diff(mv, f5p),
          !.hdel = [i \in 1..Len(hd) |-> <<hd[i], dict[hd[i]]>>],
          !.hadd = ItemsOf(cfg, list_diff(mh, f5h)),
          !.padd = padd,
          !.vadd = list_diff(mv, f5v),
          !.healthcheck_intersect = list_intersect(mv, f5h),
          !.hupd = ItemsOf(cfg, list_intersect(mv, f5h)),
          !.pupd = pupd,
          !.vupd = list_intersect(mv, f5v),
          !.mpools = Dedup(padd \o pupd)]

\* The lists _apply_config computes from what it read after the iApp phase.
ComputeLists(w, cfg, b, partition) ==
    LET mi == marathon_iapp_list(cfg, partition)
        mv == marathon_virtual_list(cfg, partition)
        mh == marathon_healthcheck_list(cfg, partition)
        dict == get_healthcheck_list(b, partition)
        f5p == NotOwnedByIapp(get_pool_list(b, partition), mi)
        f5v == NotOwnedByIapp(get_virtual_list(b, partition), mi)
        f5h == NotOwnedByIapp(SeqOfSet(DOMAIN dict), mi)
        hd == list_diff(f5h, mh)
        padd == list_diff(mv, f5p)
        pupd == list_intersect(mv, f5p)
    IN [w EXCEPT
          !.f5v = f5v, !.f5p = f5p, !.f5h = f5h,
          !.vdel = list_diff(f5v, mv),
          !.pdel = list_diff(f5p, mv),
          !.hdel = [i \in 1..Len(hd) |-> <<hd[i], dict[hd[i]]>>],
          !.hadd = ItemsOf(cfg, list_diff(mh, f5h)),
          !.padd = padd,
          !.vadd = list_diff(mv, f5v),
          !.healthcheck_intersect = list_intersect(mv, f5h),
          !.hupd = ItemsOf(cfg, list_intersect(mv, f5h)),
          !.pupd = pupd,
          !.vupd = list_intersect(mv, f5v),
          !.mpools = Dedup(padd \o pupd)]

\* Except clauses that leave the SDK's own error out.
ResultOfWithoutSDKError(kind) ==
    IF kind \in CaughtErrors \ {"F5SDKError"} THEN "True" ELSE "raise"

\* The except clauses of regenerate_config_f5.
ResultOf(kind) == IF kind \in CaughtErrors THEN "True" ELSE "raise"

\* An exception that is recorded while the loops go on.
RaiseAndGoOn(out) ==
    /\ result' = ResultOf(out.err)
    /\ err' = out.err
    /\ lb' = out.lb
    /\ ops' = ops \o out.log
    /\ UNCHANGED <<partitions, config, pc, plist, part, work, prevOK, hp>>

\* An exception ends the pass.
Raise(out) ==
    /\ pc' = "idle"
    /\ result' = ResultOf(out.err)
    /\ err' = out.err
    /\ lb' = out.lb
    /\ ops' = ops \o out.log
    /\ UNCHANGED <<partitions, config, plist, part, work, prevOK, hp>>

\* The adapter calls of the loops, consuming the health entries of the
\* desired model as they go.
ApplyConsumingHealth(out, w) ==
    IF out.err = "none"
    THEN /\ lb' = out.lb
         /\ ops' = ops \o out.log
         /\ work' = w
         /\ config' = [n \in DOMAIN config |-> [config[n] EXCEPT !.health = <<>>]]
         /\ UNCHANGED <<partitions, pc, plist, part, result, err, prevOK, hp>>
    ELSE Raise(out)

\* One adapter call of a loop: its effect, or the end of the pass.
Apply(out, w) ==
    IF out.err = "none"
    THEN /\ lb' = out.lb
         /\ ops' = ops \o out.log
         /\ work' = w
         /\ UNCHANGED <<partitions, config, pc, plist, part, result, err, prevOK, hp>>
    ELSE Raise(out)

Pop(f) == [work EXCEPT ![f] = Tail(@)]

\* The loop f of ApplyOrder is the one running.
Ready(f) ==
    /\ pc = "apply"
    /\ work[f] # <<>>
    /\ \A i \in 1..Len(ApplyOrder) :
          (\E j \in i + 1..Len(ApplyOrder) : ApplyOrder[j] = f) => work[ApplyOrder[i]] = <<>>

LoopsDone == pc = "apply" /\ \A i \in 1..Len(ApplyOrder) : work[ApplyOrder[i]] = <<>>
MembersDone == work.mdel = <<>> /\ work.madd = <<>> /\ work.mupd = <<>>

StartPass ==
    /\ pc = "idle"
    /\ result # "raise"
    /\ LET unique_partitions == get_partitions(lb, partitions) IN
       /\ plist' = unique_partitions
       /\ pc' = IF unique_partitions = <<>> THEN "idle" ELSE "partition"
       /\ result' = IF unique_partitions = <<>> THEN "False" ELSE "none"
    /\ prevOK' = (result = "False")
    /\ ops' = <<>>
    /\ err' = "none"
    /\ work' = WorkEmpty
    /\ part' = "none"
    /\ UNCHANGED <<partitions, config, lb, hp>>

BeginPartition ==
    /\ pc = "partition"
    /\ LET partition == Head(plist)
           f5i == get_iapp_list(lb, partition)
           mi == marathon_iapp_list(config, partition)
       IN /\ part' = partition
          /\ work' = [WorkEmpty EXCEPT !.f5i = f5i,
                                       !.idel = list_diff(f5i, mi),
                                       !.iadd = list_diff(mi, f5i),
                                       !.iupd = list_intersect(mi, f5i)]
    /\ plist' = Tail(plist)
    /\ pc' = "iapp"
    /\ UNCHANGED <<partitions, config, lb, ops, result, err, prevOK, hp>>

IappDelete ==
    /\ pc = "iapp" /\ work.idel # <<>>
    /\ Apply(iapp_delete(lb, part, Head(work.idel)), Pop("idel"))

IappCreate ==
    /\ pc = "iapp" /\ work.idel = <<>> /\ work.iadd # <<>>
    /\ Apply(iapp_create(lb, part, Head(work.iadd), config[Head(work.iadd)]), Pop("iadd"))

IappUpdate ==
    /\ pc = "iapp" /\ work.idel = <<>> /\ work.iadd = <<>> /\ work.iupd # <<>>
    /\ Apply(iapp_update(lb, part, Head(work.iupd), config[Head(work.iupd)]), Pop("iupd"))

ReadLists ==
    /\ pc = "iapp" /\ work.idel = <<>> /\ work.iadd = <<>> /\ work.iupd = <<>>
    /\ work' = ComputeLists(work, config, lb, part)
    /\ pc' = "apply"
    /\ UNCHANGED <<partitions, config, lb, plist, part, ops, result, err, prevOK, hp>>

VirtualDelete ==
    /\ Ready("vdel")
    /\ Apply(virtual_delete(lb, part, Head(work.vdel)), Pop("vdel"))

PoolDelete ==
    /\ Ready("pdel")
    /\ Apply(pool_delete(lb, part, Head(work.pdel)), Pop("pdel"))

HealthcheckDelete ==
    /\ Ready("hdel")
    /\ Apply(healthcheck_delete(lb, part, Head(work.hdel)[1], Head(work.hdel)[2]), Pop("hdel"))

HealthcheckCreate ==
    /\ Ready("hadd")
    /\ Apply(healthcheck_create(lb, part, Head(work.hadd)[2]), Pop("hadd"))

PoolCreate ==
    /\ Ready("padd")
    /\ Apply(pool_create(lb, part, Head(work.padd), config[Head(work.padd)]), Pop("padd"))

VirtualCreate ==
    /\ Ready("vadd")
    /\ Apply(virtual_create(lb, part, Head(work.vadd), config[Head(work.vadd)]), Pop("vadd"))

HealthcheckUpdate ==
    /\ Ready("hupd")
    /\ Apply(healthcheck_update(lb, part, Head(work.hupd)[1], Head(work.hupd)[2]), Pop("hupd"))

PoolUpdate ==
    /\ Ready("pupd")
    /\ Apply(pool_update(lb, part, Head(work.pupd), config[Head(work.pupd)]), Pop("pupd"))

VirtualUpdate ==
    /\ Ready("vupd")
    /\ Apply(virtual_update(lb, part, Head(work.vupd), config[Head(work.vupd)]), Pop("vupd"))

\* The head of the member loop: the member lists of the next pool.
MemberRead ==
    /\ LoopsDone /\ MembersDone /\ work.mpools # <<>>
    /\ LET pool == Head(work.mpools) IN
       IF get_pool(lb, part, pool) = NoPool
       THEN Raise(Bad("AttributeError", lb))
       ELSE LET f5m == get_pool_member_list(lb, part, pool)
                mm == SeqOfSet(config[pool].nodes)
            IN /\ work' = [work EXCEPT !.mpools = Tail(@), !.mpool = pool, !.f5m = f5m,
                                       !.mdel = list_diff(f5m, mm),
                                       !.madd = list_diff(mm, f5m),
                                       !.mupd = list_intersect(mm, f5m)]
               /\ UNCHANGED <<partitions, config, lb, pc, plist, part, ops, result,
                              err, prevOK, hp>>

MemberDelete ==
    /\ LoopsDone /\ work.mdel # <<>>
    /\ Apply(member_delete(lb, part, work.mpool, Head(work.mdel)), Pop("mdel"))

MemberCreate ==
    /\ LoopsDone /\ work.mdel = <<>> /\ work.madd # <<>>
    /\ Apply(member_create(lb, part, work.mpool, Head(work.madd)), Pop("madd"))

MemberUpdate ==
    /\ LoopsDone /\ work.mdel = <<>> /\ work.madd = <<>> /\ work.mupd # <<>>
    /\ Apply(member_update(lb, part, work.mpool, Head(work.mupd)), Pop("mupd"))

\* cleanup_nodes: node_list and pool_list are read.
CleanupBegin ==
    /\ LoopsDone /\ MembersDone /\ work.mpools = <<>>
    /\ work' = [work EXCEPT !.nlist = get_node_list(lb, part),
                            !.cpools = get_pool_list(lb, part)]
    /\ pc' = "cleanup"
    /\ UNCHANGED <<partitions, config, lb, plist, part, ops, result, err, prevOK, hp>>

\* cleanup_nodes: the members of one pool of pool_list are scanned.
CleanupPool ==
    /\ pc = "cleanup" /\ work.cpools # <<>>
    /\ LET r == ScanMembers(lb, part, get_pool_member_list(lb, part, Head(work.cpools)),
                            work.nlist, <<>>)
       IN /\ lb' = r.lb
          /\ ops' = ops \o r.log
          /\ work' = [work EXCEPT !.cpools = Tail(@), !.nlist = r.node_list]
    /\ UNCHANGED <<partitions, config, pc, plist, part, result, err, prevOK, hp>>

\* cleanup_nodes: a node left in node_list is deleted.
NodeDelete ==
    /\ pc = "cleanup" /\ work.cpools = <<>> /\ work.nlist # <<>>
    /\ Apply(node_delete(lb, Head(work.nlist), part), Pop("nlist"))

\* cleanup_nodes returned: the next partition, or the pass returns False.
EndPartition ==
    /\ pc = "cleanup" /\ work.cpools = <<>> /\ work.nlist = <<>>
    /\ pc' = IF plist = <<>> THEN "idle" ELSE "partition"
    /\ result' = IF plist = <<>> THEN "False" ELSE result
    /\ UNCHANGED <<partitions, config, lb, plist, part, work, ops, err, prevOK, hp>>

\* The next step is a health-monitor create or update that get_healthcheck_fields
\* (or the lookup of data['protocol']) ends before any call to the adapter.
RejectedNext ==
    \/ Ready("hadd") /\ HealthFieldsError(Head(work.hadd)[2]) # "none"
    \/ Ready("hupd") /\ HealthFieldsError(Head(work.hupd)[2]) # "none"

\* An adapter call is pending.
CallPending ==
    /\ pc \in {"partition", "iapp", "apply", "cleanup"}
    /\ ~(pc = "cleanup" /\ work.cpools = <<>> /\ work.nlist = <<>>)
    /\ ~RejectedNext

\* The adapter call that is next raises instead of answering.
AdapterFailure ==
    /\ CallPending
    /\ \E kind \in AdapterErrors : Raise(Bad(kind, lb))

-----------------------------------------------------------------------------
(* The builders _create_config_marathon and _create_config_kubernetes.     *)
(* hp.cloud is self._cloud, hp.input the list handed to the builder,       *)
(* hp.apps the list its loop runs over, hp.at the place of the loop in it  *)
(* (0 when no build runs), hp.out the dict f5 and hp.raised tells that an  *)
(* exception left the builder.                                             *)

\* self._lbmethods
lbmethods ==
    {"dynamic-ratio-member", "least-connections-member", "observed-node",
     "ratio-least-connections-node", "round-robin", "dynamic-ratio-node",
     "least-connections-node", "predictive-member", "ratio-member",
     "weighted-least-connections-member", "fastest-app-response", "least-sessions",
     "predictive-node", "ratio-node", "weighted-least-connections-node",
     "fastest-node", "observed-member", "ratio-least-connections-member",
     "ratio-session"}

\* str(x).lower(), for the strings of the model.
Lower(x) ==
    CASE x = "TCP" -> "tcp"
      [] x = "HTTP" -> "http"
      [] x = "UDP" -> "udp"
      [] OTHER -> x

get_protocol(protocol) ==
    IF Lower(protocol) = "tcp" THEN "tcp"
    ELSE IF Lower(protocol) = "http" THEN "tcp"
    ELSE IF Lower(protocol) = "udp" THEN "udp"
    ELSE "None"

\* ipaddress.ip_address(x) returns, for the strings of the model.
IsIpAddress(x) == x \in {"10.0.0.1", "10.0.0.2"}

\* '%d' % port, for the ports of the model.
PortStr(port) ==
    CASE port = 0 -> "0"
      [] port = 1 -> "1"
      [] port = 80 -> "80"
      [] port = 65535 -> "65535"
      [] port = 65536 -> "65536"

\* The timeout without the second its last term adds.
TimeoutWithoutLastSecond(data) ==
    ((data.maxConsecutiveFailures - 1) * data.intervalSeconds) + data.timeoutSeconds

healthcheck_timeout_calculate(data) ==
    ((data.maxConsecutiveFailures - 1) * data.intervalSeconds) + data.timeoutSeconds + 1

\* The validation without the test of the port.
LabelDataValidWithoutPort(app) ==
    /\ get_protocol(app.mode) # "None"
    /\ IsIpAddress(app.bindAddr)
    /\ app.balance \in lbmethods

is_label_data_valid(app) ==
    /\ get_protocol(app.mode) # "None"
    /\ ~(app.servicePort < 1 \/ app.servicePort > 65535)
    /\ IsIpAddress(app.bindAddr)
    /\ app.balance \in lbmethods

\* frontend_name: appId, 'iapp' or the bind address, the service port.
FrontendName(app) ==
    <<app.appId, IF app.iapp # "" THEN "iapp" ELSE app.bindAddr, PortStr(app.servicePort)>>

RECURSIVE SplitSlash(_)
\* ref.split('/') of a reference written as its tokens, '/' among them: the
\* pieces between the slashes, each the sequence of its tokens.
SplitSlash(ref) ==
    IF \A i \in 1..Len(ref) : ref[i] # "/" THEN <<ref>>
    ELSE LET i == CHOOSE j \in 1..Len(ref) :
                     ref[j] = "/" /\ \A k \in 1..(j - 1) : ref[k] # "/"
         IN <<SubSeq(ref, 1, i - 1)>> \o SplitSlash(SubSeq(ref, i + 1, Len(ref)))

\* A piece of a reference as a string: the pieces of the model have one token at most.
PieceStr(piece) == IF piece = <<>> THEN "" ELSE piece[1]

\* The last two pieces of a reference of two pieces or more.
SslProfilesLastTwo(ref) ==
    IF ref = <<>> \/ Len(SplitSlash(ref)) < 2 THEN <<>>
    ELSE LET pieces == SplitSlash(ref) IN
         << [partition |-> PieceStr(pieces[Len(pieces) - 1]),
             name |-> PieceStr(pieces[Len(pieces)])] >>

\* The profile of the SSL profile reference: none for no reference and for a
\* reference that does not split into two pieces.
SslProfiles(ref) ==
    IF ref = <<>> \/ Len(SplitSlash(ref)) # 2 THEN <<>>
    ELSE << [partition |-> PieceStr(SplitSlash(ref)[1]),
             name |-> PieceStr(SplitSlash(ref)[2])] >>

\* The profiles added for the mode of a virtual server.
ProfilesOf(mode) ==
    IF Lower(mode) = "http" THEN HttpProfiles
    ELSE IF get_protocol(mode) = "tcp" THEN << [partition |-> "Common", name |-> "tcp"] >>
    ELSE <<>>

\* f5_service['health'] of an application: its health check, if it has one,
\* named after the service, with interval and timeout.
HealthOf(app) ==
    [i \in 1..Len(app.healthCheck) |->
        [name |-> FrontendName(app),
         protocol |-> Lower(app.healthCheck[i].protocol),
         interval |-> app.healthCheck[i].intervalSeconds,
         timeout |-> healthcheck_timeout_calculate(app.healthCheck[i])]]

\* common.resolve_ip(host): the address of a backend's host, 0 standing for
\* None.  Hosts written as small numbers are addresses, host 10 is a name of
\* address 1 and host 99 a name that does not resolve.
resolve_ip(host) ==
    CASE host = 10 -> 1
      [] host = 99 -> 0
      [] OTHER -> host

\* A node for every backend, resolved or not.
NodesOfAllBackends(app) ==
    {MemberName(resolve_ip(h), MemberPort) : h \in Range(app.backends)}

\* f5_service['nodes']: a node for every backend whose host resolves.
MarathonNodes(app) ==
    {MemberName(resolve_ip(h), MemberPort) :
        h \in {x \in Range(app.backends) : resolve_ip(x) # 0}}

\* The f5_service of an application that passed the tests of the loop.
ServiceOf(app) ==
    [partition |-> app.partition,
     iapp |-> IF app.iapp # "" THEN app.iapp ELSE "none",
     virtual_address |-> app.bindAddr,
     virtual |-> [enabled |-> TRUE,
                  ipProtocol |-> get_protocol(app.mode),
                  destination |-> <<app.partition, app.bindAddr, PortStr(app.servicePort)>>,
                  pool |-> <<app.partition, FrontendName(app)>>,
                  profiles |-> SslProfiles(app.profile) \o ProfilesOf(app.mode)],
     pool |-> [monitor |-> IF app.healthCheck # <<>>
                           THEN << <<app.partition, FrontendName(app)>> >>
                           ELSE <<>>,
               loadBalancingMode |-> app.balance],
     health |-> HealthOf(app),
     nodes |-> MarathonNodes(app)]

\* The body of the loop of _create_config_marathon: f5 after the application.
MarathonStep(out, app, ps) ==
    IF ~has_partition(ps, app.partition) THEN out
    ELSE IF app.bindAddr = "" /\ app.iapp = "" THEN out
    ELSE IF app.iapp = "" /\ ~is_label_data_valid(app) THEN out
    ELSE Put(out, FrontendName(app), ServiceOf(app))

\* frontend_name of a service record.
KubernetesName(svc) ==
    <<svc.serviceName, IF svc.iapp # "" THEN "iapp" ELSE svc.bindAddr, PortStr(svc.port)>>

\* The f5_service of a service record: with an iApp the keys virtual, pool,
\* health and virtual_address are not set.
KubernetesService(svc) ==
    LET nodes == {MemberName(h, MemberPort) : h \in Range(svc.poolMemberAddrs)} IN
    IF svc.iapp # ""
    THEN [partition |-> svc.partition, iapp |-> svc.iapp, nodes |-> nodes]
    ELSE [PlainService(svc.partition, KubernetesName(svc), svc.bindAddr,
                       svc.healthMonitors, {}, svc.balance)
            EXCEPT !.virtual.ipProtocol = get_protocol(svc.mode),
                   !.virtual.destination = <<svc.partition, svc.bindAddr, PortStr(svc.port)>>,
                   !.virtual.profiles = SslProfiles(svc.profile) \o ProfilesOf(svc.mode),
                   !.nodes = nodes]

\* The loop body without the test for an address or an iApp.
KubernetesStepWithoutAddressTest(out, svc, ps) ==
    IF ~has_partition(ps, svc.partition) THEN out
    ELSE Put(out, KubernetesName(svc), KubernetesService(svc))

\* The body of the loop of _create_config_kubernetes: f5 after the record.
\* A record without virtualAddress.bindAddr carries bindAddr "".
KubernetesStep(out, svc, ps) ==
    IF ~has_partition(ps, svc.partition) THEN out
    ELSE IF svc.bindAddr = "" /\ svc.iapp = "" THEN out
    ELSE Put(out, KubernetesName(svc), KubernetesService(svc))

\* attrgetter('appId', 'servicePort') of a precedes that of b.
KeyLess(a, b) ==
    \/ a.appId = "api" /\ b.appId = "web"
    \/ a.appId = b.appId /\ a.servicePort < b.servicePort

RECURSIVE InsertApp(_, _)
InsertApp(s, x) ==
    IF s = <<>> THEN <<x>>
    ELSE IF KeyLess(x, Head(s)) THEN <<x>> \o s
    ELSE <<Head(s)>> \o InsertApp(Tail(s), x)

RECURSIVE SortedApps(_)
\* sorted(apps, key=attrgetter('appId', 'servicePort')): a stable sort.
SortedApps(apps) ==
    IF apps = <<>> THEN <<>>
    ELSE InsertApp(SortedApps(SubSeq(apps, 1, Len(apps) - 1)), apps[Len(apps)])

RECURSIVE MarathonFold(_, _, _)
MarathonFold(out, apps, ps) ==
    IF apps = <<>> THEN out
    ELSE MarathonFold(MarathonStep(out, Head(apps), ps), Tail(apps), ps)

\* The dict _create_config_marathon returns for a list of applications.
MarathonConfig(input, ps) == MarathonFold(Empty, SortedApps(input), ps)

RECURSIVE KubernetesFold(_, _, _)
KubernetesFold(out, svcs, ps) ==
    IF svcs = <<>> THEN out
    ELSE KubernetesFold(KubernetesStep(out, Head(svcs), ps), Tail(svcs), ps)

\* The dict _create_config_kubernetes returns for a list of service records.
KubernetesConfig(input, ps) == KubernetesFold(Empty, input, ps)

\* The body of the loop over the applications, for the application at hp.at.
BuildApp ==
    /\ hp.cloud = "marathon"
    /\ hp.at \in 1..Len(hp.apps) /\ ~hp.raised
    /\ LET app == hp.apps[hp.at]
           answer == HasPartitionOutcome(Range(partitions), app.partition)
       IN hp' = IF answer = "raise" THEN [hp EXCEPT !.raised = TRUE]
                ELSE [hp EXCEPT !.at = @ + 1,
                                !.out = MarathonStep(@, app, Range(partitions))]
    /\ UNCHANGED <<partitions, config, lb, pc, plist, part, work, ops, result, err, prevOK>>

\* The body of the loop over the service records, for the record at hp.at.
BuildSvc ==
    /\ hp.cloud = "kubernetes"
    /\ hp.at \in 1..Len(hp.apps) /\ ~hp.raised
    /\ LET svc == hp.apps[hp.at]
           answer == HasPartitionOutcome(Range(partitions), svc.partition)
       IN hp' = IF answer = "raise" THEN [hp EXCEPT !.raised = TRUE]
                ELSE [hp EXCEPT !.at = @ + 1,
                                !.out = KubernetesStep(@, svc, Range(partitions))]
    /\ UNCHANGED <<partitions, config, lb, pc, plist, part, work, ops, result, err, prevOK>>

\* return f5
BuildReturn ==
    /\ hp.at = Len(hp.apps) + 1
    /\ config' = hp.out
    /\ hp' = [hp EXCEPT !.at = 0]
    /\ UNCHANGED <<partitions, lb, pc, plist, part, work, ops, result, err, prevOK>>

-----------------------------------------------------------------------------
(* The cases the passes start from: a configured partition list, a desired *)
(* model as the builders return it, and a load balancer holding what       *)
(* earlier passes (for other desired models) or an administrator left.     *)

N1 == <<"web", "10.0.0.1", "80">>
N2 == <<"api", "10.0.0.2", "80">>
NI == <<"shop", "iapp", "80">>
\* A pool and a virtual server that the iApp NI created for itself.
NISub == NI \o <<"pool">>

\* The profile entry of an SSL profile reference 'Common/clientssl'.
SslProfile == [partition |-> "Common", name |-> "clientssl"]

Http(iv) == [protocol |-> "http", interval |-> iv]
Tcp(iv) == [protocol |-> "tcp", interval |-> iv]
\* A health check of Marathon's protocol COMMAND, lowercased by the builder.
Command(iv) == [protocol |-> "command", interval |-> iv]

Plain(p, n, protos, hosts) ==
    PlainService(p, n, IF n = N1 THEN "10.0.0.1" ELSE "10.0.0.2", protos, hosts,
                 "round-robin")

\* dict.update({frontend_name: f5_service}) from the empty dict.
One(n, e) == [x \in {n} |-> e]
Two(n, e, m, f) == [x \in {n, m} |-> IF x = n THEN e ELSE f]

HostSets == SUBSET Hosts

Configs ==
    {Empty}
    \cup {One(N1, Plain(p, N1, <<>>, hs)) : p \in {"p1", "p2"}, hs \in HostSets}
    \cup {One(N1, Plain("p1", N1, <<Http(iv)>>, {1})) : iv \in {5, 10}}
    \cup {One(N1, Plain("p1", N1, <<Tcp(5)>>, {1})),
          One(N1, Plain("p1", N1, <<Http(5), Tcp(5)>>, {1})),
          One(N1, Plain("p1", N1, <<Http(5), Http(10)>>, {1})),
          One(N1, Plain("p1", N1, <<Command(5)>>, {1})),
          One(N1, [Plain("p1", N1, <<>>, {1}) EXCEPT
                      !.virtual.profiles = <<SslProfile>> \o HttpProfiles]),
          Two(N1, Plain("p1", N1, <<>>, {1}), N2, Plain("p2", N2, <<>>, {1})),
          Two(N1, Plain("p2", N1, <<>>, {1}), N2, Plain("p1", N2, <<Http(5)>>, {1})),
          One(NI, IappService("p1", "tmpl", {1})),
          Two(NI, IappService("p1", "tmpl", {1}), N1, Plain("p1", N1, <<>>, {1})),
          Two(NI, IappService("p1", "tmpl", {1}), NISub, Plain("p1", NISub, <<>>, {1})),
          One(N1, Plain("Common", N1, <<>>, {1}))}

\* The load balancer with nothing but its folders.
LbEmpty(order) ==
    [order |-> order, folders |-> <<"/", "Common", "svc.app">> \o order,
     iapps |-> Empty, http |-> Empty, tcp |-> Empty, pools |-> Empty,
     members |-> Empty, virtuals |-> Empty, vaddrs |-> Empty, nodes |-> Empty]

RECURSIVE WithMonitors(_, _, _)
WithMonitors(b, p, health) ==
    IF health = <<>> THEN b
    ELSE LET h == Head(health)
             k == <<p, h.name>>
             b2 == IF h.protocol = "http"
                   THEN [b EXCEPT !.http = Put(@, k, [interval |-> h.interval])]
                   ELSE [b EXCEPT !.tcp = Put(@, k, [interval |-> h.interval])]
         IN WithMonitors(b2, p, Tail(health))

\* The load balancer b with service entry e deployed under name n: monitors,
\* pool, members and their nodes, and (withVirtual) virtual server and address.
Deployed(b, n, e, withVirtual) ==
    LET p == e.partition
        k == <<p, n>>
        b1 == WithMonitors(b, p, e.health)
        ms == [m \in {<<p, x>> : x \in e.nodes} |-> UserUp(e.health # <<>>)]
        ns == [x \in DOMAIN b1.nodes \cup {<<p, MemberHost(m)>> : m \in e.nodes} |->
                 IF x \in DOMAIN b1.nodes THEN b1.nodes[x] ELSE UserUp(FALSE)]
        b2 == [b1 EXCEPT !.pools = Put(@, k, StoredPool(e.pool)),
                         !.members = Put(@, k, ms),
                         !.nodes = ns]
    IN IF withVirtual
       THEN [b2 EXCEPT !.virtuals = Put(@, k, StoredVirtual(e.virtual)),
                       !.vaddrs = Put(@, <<p, e.virtual_address>>, "yes")]
       ELSE b2

\* A node no member refers to.
WithNode(b, p, host, state) == [b EXCEPT !.nodes = Put(@, <<p, host>>, state)]

WithIapp(b, p, n, e) == [b EXCEPT !.iapps = Put(@, <<p, n>>, iapp_build_definition(e))]

Lbs(order) ==
    LET e == LbEmpty(order)
        a1(hs) == Deployed(e, N1, Plain("p1", N1, <<>>, hs), TRUE)
        a2 == Deployed(e, N1, Plain("p2", N1, <<>>, {2}), TRUE)
    IN {e, a2}
       \cup {a1(hs) : hs \in HostSets}
       \cup {Deployed(a1({1}), N1, Plain("p2", N1, <<>>, hs), FALSE) : hs \in HostSets}
       \cup {Deployed(Deployed(e, N1, Plain("p1", N1, <<>>, {1}), FALSE),
                      N1, Plain("p2", N1, <<>>, {2}), FALSE),
             WithNode(a1({1}), "p1", 2, UserUp(FALSE)),
             WithNode(Deployed(a2, N2, Plain("p1", N2, <<>>, {1}), TRUE), "p1", 2,
                      [state |-> "user-down", session |-> "user-disabled"]),
             Deployed(e, N1, Plain("p1", N1, <<Http(5)>>, {1}), TRUE),
             Deployed(e, N1, Plain("p1", N1, <<Tcp(5)>>, {1}), TRUE),
             WithIapp(e, "p1", NI, IappService("p1", "tmpl", {1})),
             WithIapp(Deployed(e, NISub, Plain("p1", NISub, <<>>, {1}), TRUE),
                      "p1", NI, IappService("p1", "tmpl", {2})),
             WithNode(WithIapp(Deployed(a1({1}), NISub, Plain("p1", NISub, <<>>, {1}), FALSE),
                               "p1", NI, IappService("p1", "tmpl", {1})),
                      "p1", 1, [state |-> "down", session |-> "monitor-enabled"]),
             Deployed(a1({1}), N1,
                      PlainService("p2", N1, "10.0.0.1", <<>>, {2}, "ratio-member"), FALSE),
             [a1({1}) EXCEPT !.vaddrs = Put(@, <<"p1", "10.0.0.1">>, "no"),
                             !.virtuals[<<"p1", N1>>].profiles = HttpProfiles \o <<SslProfile>>],
             [a1({1}) EXCEPT !.vaddrs = Empty,
                             !.members[<<"p1", N1>>][<<"p1", MemberName(1, MemberPort)>>] =
                                 [state |-> "unchecked", session |-> "user-disabled"]],
             Deployed(WithIapp(Deployed(e, NISub, Plain("p1", NISub, <<>>, {1}), FALSE),
                               "p1", NI, IappService("p1", "tmpl", {1})),
                      NISub, Plain("p2", NISub, <<>>, {2}), FALSE)}

PartitionLists == {<<"p1", "p2">>, <<"p2", "p1">>, <<"*">>}
Orders == {<<"p1", "p2">>, <<"p2", "p1">>}

HpIdle == [cloud |-> "marathon", input |-> <<>>, apps |-> <<>>, out |-> <<>>, at |-> 0,
           raised |-> FALSE]

Init ==
    /\ partitions \in PartitionLists
    /\ config \in Configs
    /\ \A n \in DOMAIN config : has_partition(Range(partitions), config[n].partition)
    /\ \E order \in Orders : lb \in Lbs(order)
    /\ pc = "idle"
    /\ plist = <<>>
    /\ part = "none"
    /\ work = WorkEmpty
    /\ ops = <<>>
    /\ result = "none"
    /\ err = "none"
    /\ prevOK = FALSE
    /\ hp = HpIdle

Next ==
    \/ StartPass
    \/ BeginPartition
    \/ IappDelete
    \/ IappCreate
    \/ IappUpdate
    \/ ReadLists
    \/ VirtualDelete
    \/ PoolDelete
    \/ HealthcheckDelete
    \/ HealthcheckCreate
    \/ PoolCreate
    \/ VirtualCreate
    \/ HealthcheckUpdate
    \/ PoolUpdate
    \/ VirtualUpdate
    \/ MemberRead
    \/ MemberDelete
    \/ MemberCreate
    \/ MemberUpdate
    \/ CleanupBegin
    \/ CleanupPool
    \/ NodeDelete
    \/ EndPartition
    \/ AdapterFailure

Spec == Init /\ [][Next]_vars

\* An application of the orchestrator: http, address 10.0.0.1, port 80, two
\* backends, no health check.
BaseApp(id, p) ==
    [appId |-> id, partition |-> p, bindAddr |-> "10.0.0.1", iapp |-> "", mode |-> "http",
     servicePort |-> 80, balance |-> "round-robin", healthCheck |-> <<>>,
     backends |-> <<1, 2>>, profile |-> <<>>]

HealthCheck(proto, failures, interval, timeout) ==
    [protocol |-> proto, maxConsecutiveFailures |-> failures,
     intervalSeconds |-> interval, timeoutSeconds |-> timeout]

\* The applications the orchestrator may report.
Apps ==
    LET w == BaseApp("web", "prod") IN
    {BaseApp(id, p) : id \in {"api", "web"}, p \in {"", "prod", "dev"}}
    \cup {[BaseApp("web", p) EXCEPT !.bindAddr = ""] : p \in {"prod", "dev"}}
    \cup {[BaseApp("web", p) EXCEPT !.iapp = "tmpl", !.bindAddr = a] :
            p \in {"", "prod", "dev"}, a \in {"", "10.0.0.1"}}
    \cup {[w EXCEPT !.mode = m] : m \in {"TCP", "udp", "ftp"}}
    \cup {[w EXCEPT !.servicePort = n] : n \in {0, 1, 65535, 65536}}
    \cup {[w EXCEPT !.balance = x] : x \in {"bogus", "ratio-member"}}
    \cup {[w EXCEPT !.backends = x] : x \in {<<2, 1>>, <<1>>, <<99>>, <<1, 99>>, <<99, 2, 10>>}}
    \cup {[w EXCEPT !.healthCheck = <<x>>] :
            x \in {HealthCheck("HTTP", 3, 5, 10), HealthCheck("tcp", 1, 10, 5),
                   HealthCheck("http", 0, 7, 2)}}
    \cup {[w EXCEPT !.bindAddr = "bogus"],
          [w EXCEPT !.iapp = "tmpl", !.mode = "ftp", !.balance = "bogus"]}
    \cup {[w EXCEPT !.profile = <<"Common", "/", "clientssl">>, !.mode = m] :
            m \in {"http", "TCP", "udp"}}
    \cup {[BaseApp("api", "prod") EXCEPT !.profile = x] :
            x \in {<<"clientssl">>, <<"/", "Common", "/", "clientssl">>, <<"Common", "/">>}}

\* A service record: http, address 10.0.0.2, port 80, two member addresses.
BaseSvc(n, p) ==
    [serviceName |-> n, partition |-> p, bindAddr |-> "10.0.0.2", port |-> 80, iapp |-> "",
     mode |-> "http", balance |-> "round-robin", healthMonitors |-> <<>>,
     poolMemberAddrs |-> <<1, 2>>, profile |-> <<>>]

\* The service records the orchestrator may report.
Svcs ==
    LET w == BaseSvc("web", "prod") IN
    {BaseSvc("web", p) : p \in {"", "prod", "dev"}}
    \cup {BaseSvc("api", "prod"),
          [w EXCEPT !.bindAddr = ""],
          [w EXCEPT !.iapp = "tmpl"],
          [w EXCEPT !.iapp = "tmpl", !.bindAddr = ""],
          [BaseSvc("web", "dev") EXCEPT !.iapp = "tmpl"],
          [w EXCEPT !.balance = "bogus"],
          [w EXCEPT !.mode = "tcp"],
          [w EXCEPT !.healthMonitors = <<Http(5)>>],
          [w EXCEPT !.healthMonitors = <<Http(5), Tcp(5)>>],
          [w EXCEPT !.poolMemberAddrs = <<2, 1>>],
          [w EXCEPT !.poolMemberAddrs = <<>>],
          [w EXCEPT !.profile = <<"Common", "/", "clientssl">>],
          [w EXCEPT !.profile = <<"Common", "/", "clientssl">>, !.mode = "udp"],
          [BaseSvc("api", "prod") EXCEPT !.profile = <<"/", "Common", "/", "clientssl">>,
                                         !.mode = "tcp"]}

RECURSIVE SeqsUpTo(_, _)
SeqsUpTo(S, n) ==
    IF n = 0 THEN {<<>>}
    ELSE LET shorter == SeqsUpTo(S, n - 1)
         IN shorter \cup {Append(s, x) : s \in {t \in shorter : Len(t) = n - 1}, x \in S}

\* The builder of a cloud at its first application.
BuildFrom(cloud, input) ==
    [cloud |-> cloud, input |-> input,
     apps |-> IF cloud = "marathon" THEN SortedApps(input) ELSE input,
     out |-> Empty, at |-> 1, raised |-> FALSE]

BuildPartitionLists == {<<>>, <<"prod">>, <<"*">>, <<"prod", "dev">>, <<"qa", "*">>}

InitBuild ==
    /\ partitions \in BuildPartitionLists
    /\ hp \in {BuildFrom("marathon", s) : s \in SeqsUpTo(Apps, MaxApps)}
                \cup {BuildFrom("kubernetes", s) : s \in SeqsUpTo(Svcs, MaxApps)}
    /\ config = Empty
    /\ lb = LbEmpty(<<"p1", "p2">>)
    /\ pc = "idle"
    /\ plist = <<>>
    /\ part = "none"
    /\ work = WorkEmpty
    /\ ops = <<>>
    /\ result = "none"
    /\ err = "none"
    /\ prevOK = FALSE

NextBuild ==
    \/ BuildApp
    \/ BuildSvc
    \/ BuildReturn

SpecBuild == InitBuild /\ [][NextBuild]_vars

-----------------------------------------------------------------------------
(* One call of regenerate_config_f5 for the Marathon cloud state of two    *)
(* applications of one shape, one in partition prod and one in partition   *)
(* dev, with ['prod'] managed and nothing in the load balancer's partition *)
(* prod, against an adapter of which no call fails for a reason of its own.*)

ScenarioInputs ==
    {<<BaseApp("web", "prod"), BaseApp(id, "dev")>> : id \in {"web", "api"}}
    \cup {<<BaseApp(id, "dev"), BaseApp("web", "prod")>> : id \in {"web", "api"}}
    \cup {<<[BaseApp("web", "prod") EXCEPT !.backends = <<2, 1>>], BaseApp("web", "dev")>>}

\* Partition prod is empty; partition dev is empty or holds what another
\* controller deployed for the application of partition dev.
ScenarioLbs(order) ==
    LET e == LbEmpty(order) IN
    {e} \cup {Deployed(e, N1, Plain("dev", N1, <<>>, hs), v) :
                hs \in SUBSET {1, 2}, v \in BOOLEAN}

InitScenario ==
    /\ partitions = <<"prod">>
    /\ hp \in {BuildFrom("marathon", s) : s \in ScenarioInputs}
    /\ \E order \in {<<"prod", "dev">>, <<"dev", "prod">>} : lb \in ScenarioLbs(order)
    /\ config = Empty
    /\ pc = "idle"
    /\ plist = <<>>
    /\ part = "none"
    /\ work = WorkEmpty
    /\ ops = <<>>
    /\ result = "none"
    /\ err = "none"
    /\ prevOK = FALSE

\* self._apply_config(cfg), once the builder returned cfg.
ApplyBuilt == hp.at = 0 /\ hp.input # <<>> /\ result = "none" /\ StartPass

NextScenario ==
    \/ BuildApp
    \/ BuildReturn
    \/ ApplyBuilt
    \/ BeginPartition
    \/ ReadLists
    \/ PoolCreate
    \/ VirtualCreate
    \/ MemberRead
    \/ MemberCreate
    \/ MemberUpdate
    \/ CleanupBegin
    \/ CleanupPool
    \/ EndPartition

SpecScenario == InitScenario /\ [][NextScenario]_vars

-----------------------------------------------------------------------------
(* Properties of the pass.                                                 *)

-----------------------------------------------------------------------------
(* Passes repeated by the caller against an adapter whose only failures of *)
(* its own are connection errors, which regenerate_config_f5 answers with  *)
(* the retry signal.                                                        *)

\* The adapter call that is next ends with a connection error.
TransientFailure == CallPending /\ Raise(Bad("ConnectionError", lb))

\* The steps of regenerate_config_f5 and _apply_config themselves.
PassStep ==
    \/ StartPass
    \/ BeginPartition
    \/ IappDelete
    \/ IappCreate
    \/ IappUpdate
    \/ ReadLists
    \/ VirtualDelete
    \/ PoolDelete
    \/ HealthcheckDelete
    \/ HealthcheckCreate
    \/ PoolCreate
    \/ VirtualCreate
    \/ HealthcheckUpdate
    \/ PoolUpdate
    \/ VirtualUpdate
    \/ MemberRead
    \/ MemberDelete
    \/ MemberCreate
    \/ MemberUpdate
    \/ CleanupBegin
    \/ CleanupPool
    \/ NodeDelete
    \/ EndPartition

NextRetry == PassStep \/ TransientFailure

\* The caller starts the next pass and every loop goes on to its next call.
SpecRetry == Init /\ [][NextRetry]_vars /\ WF_vars(PassStep)

Completed == pc = "idle" /\ result = "False"
Managed == Range(get_partitions(lb, partitions))

NameSet(coll, p) == {k[2] : k \in {x \in DOMAIN coll : x[1] = p}}
OwnedByIapp(x, p) == \E i \in Range(marathon_iapp_list(config, p)) : StartsWith(x, i)
DesiredNames(p) == Range(marathon_virtual_list(config, p))

\* C1: after a pass that returned False, in every managed partition the
\* virtual-server names and the pool names on the load balancer, without those
\* that start with a desired iApp's name, are the names of the partition's
\* individually-managed desired services.
C1_NamesConverged ==
    Completed =>
        \A p \in Managed :
            /\ {x \in NameSet(lb.virtuals, p) : ~OwnedByIapp(x, p)} = DesiredNames(p)
            /\ {x \in NameSet(lb.pools, p) : ~OwnedByIapp(x, p)} = DesiredNames(p)

MemberNames(b, k) == {m[2] : m \in DOMAIN b.members[k]}

\* C2: after a pass that returned False, the pool of every individually-managed
\* desired service of a managed partition holds exactly the service's members.
C2_MembersConverged ==
    Completed =>
        \A x \in DOMAIN config :
            (~IsIapp(config, x) /\ config[x].partition \in Managed) =>
                /\ <<config[x].partition, x>> \in DOMAIN lb.pools
                /\ MemberNames(lb, <<config[x].partition, x>>) = config[x].nodes

\* The resources of partition q on load balancer b.
Slice(b, q) ==
    LET In(coll) == [k \in {x \in DOMAIN coll : x[1] = q} |-> coll[k]] IN
    [iapps |-> In(b.iapps), http |-> In(b.http), tcp |-> In(b.tcp),
     pools |-> In(b.pools), members |-> In(b.members),
     virtuals |-> In(b.virtuals), vaddrs |-> In(b.vaddrs), nodes |-> In(b.nodes)]

InPartition == pc \in {"iapp", "apply", "cleanup"}

\* C3: a step of the pass over partition part leaves the resources of every
\* other partition as they are.
C3_PartitionIsolation ==
    [][InPartition => \A q \in Range(lb.order) \ {part} : Slice(lb', q) = Slice(lb, q)]_vars

\* cleanup_nodes(part) has returned.
CleanupReturned == pc = "cleanup" /\ work.cpools = <<>> /\ work.nlist = <<>>

\* The hosts the members of the pools of partition p refer to.
ReferencedHosts(b, p) ==
    {MemberHost(m[2]) : m \in UNION {DOMAIN b.members[k] : k \in {x \in DOMAIN b.pools : x[1] = p}}}

\* C9: when cleanup_nodes(part) returns, the nodes of the partition are exactly
\* the hosts of the members of the partition's pools.
C9_NodesAreReferenced ==
    CleanupReturned => NameSet(lb.nodes, part) = ReferencedHosts(lb, part)

Writes(log) == {i \in 1..Len(log) : log[i].w}

\* C4: a pass that follows a pass that returned False, for the same desired
\* model, writes nothing to the load balancer: no create, no delete, and every
\* update finds no change.
C4_SecondPassWritesNothing == prevOK => Writes(ops) = {}

\* The phase of an operation as section 5 names the phases.
PhaseRank(op) ==
    CASE op \in {"iapp_delete", "iapp_create", "iapp_update"} -> 1
      [] op \in {"healthcheck_delete", "healthcheck_create", "healthcheck_update"} -> 2
      [] op \in {"pool_delete", "pool_create", "pool_update"} -> 3
      [] op \in {"virtual_delete", "virtual_create", "virtual_update",
                 "virtual_address_create", "virtual_address_update"} -> 4
      [] op \in {"member_delete", "member_create", "member_update"} -> 5
      [] op \in {"node_check", "node_modify", "node_delete"} -> 6

\* The place of an operation in the order _apply_config issues them.
CodeRank(op) ==
    CASE op = "iapp_delete" -> 1
      [] op = "iapp_create" -> 2
      [] op = "iapp_update" -> 3
      [] op = "virtual_delete" -> 4
      [] op = "pool_delete" -> 5
      [] op = "healthcheck_delete" -> 6
      [] op = "healthcheck_create" -> 7
      [] op = "pool_create" -> 8
      [] op = "virtual_create" -> 9
      [] op = "healthcheck_update" -> 10
      [] op = "pool_update" -> 11
      [] op \in {"virtual_update", "virtual_address_create", "virtual_address_update"} -> 12
      [] op \in {"member_delete", "member_create", "member_update"} -> 13
      [] op \in {"node_check", "node_modify"} -> 14
      [] op = "node_delete" -> 15

\* The operations of one partition follow each other in the order of the
\* ranks r, one rank for each operation of ops.
InOrder(r) ==
    \A i, j \in 1..Len(ops) :
        (i < j /\ ops[i].part = ops[j].part) => r[i] <= r[j]

Ended == pc = "idle" /\ result # "none"

\* C6 as stated: True exactly for a connection error, an invalid URL and an
\* unexpected HTTP status; False exactly when no exception ended the pass; any
\* other exception leaves regenerate_config_f5.
C6_RetryForThree ==
    Ended =>
        /\ result = "True" <=> err \in {"ConnectionError", "BigIPInvalidURL", HTTPError}
        /\ result = "False" <=> err = "none"
        /\ result = "raise" <=>
              err \notin {"none", "ConnectionError", "BigIPInvalidURL", HTTPError}

\* C6, amended: True exactly for a connection error, an SDK error (F5SDKError),
\* an invalid URL and an unexpected HTTP status; False exactly when no exception
\* ended the pass; any other exception leaves regenerate_config_f5.
C6_RetryForFour ==
    Ended =>
        /\ result = "True" <=>
              err \in {"ConnectionError", "F5SDKError", "BigIPInvalidURL", HTTPError}
        /\ result = "False" <=> err = "none"
        /\ result = "raise" <=>
              err \notin {"none", "ConnectionError", "F5SDKError", "BigIPInvalidURL",
                          HTTPError}

C6_Witness == Ended /\ err = "F5SDKError" /\ result = "True" /\ ops # <<>>

IsPrefix(s, t) == Len(s) <= Len(t) /\ SubSeq(t, 1, Len(s)) = s
Failed == result \in {"True", "raise"}

\* C7: the step in which an exception ends the pass keeps every operation
\* issued before it and what it wrote, and from then on no operation is issued
\* and the load balancer is not written to until another pass starts.
C7_FailureStopsThePass ==
    [][/\ (~Failed /\ Failed') =>
            /\ IsPrefix(ops, ops')
            /\ (ops' = ops => lb' = lb)
       /\ Failed => (lb' = lb /\ (ops' = ops \/ (ops' = <<>> /\ pc' # "idle")))]_vars

\* A pass ended by an exception after it wrote to the load balancer, with work
\* left in the partition and a partition not yet begun.
C7_Witness ==
    /\ Failed
    /\ Writes(ops) # {}
    /\ plist # <<>>
    /\ work.madd # <<>>

\* The names the running partition's pass has passed to an operation.
Issued(op) == {ops[i].name : i \in {j \in 1..Len(ops) : ops[j].op = op /\ ops[j].part = part}}

\* Of the set expected, what is not yet passed to op waits in the loop's list.
Exactly(op, f, expected) ==
    /\ Issued(op) \cup Range(work[f]) = expected
    /\ Completed => Issued(op) = expected

\* The members passed to an operation on the pool whose member loop is running.
IssuedMembers(op) == {n[2] : n \in {x \in Issued(op) : x[1] = work.mpool}}

ListsComputed == pc \in {"apply", "cleanup"} \/ (Completed /\ part # "none")

\* C8: for iApps, pools, virtual servers and the members of a pool, with D the
\* desired names of the partition and A the names read from the load balancer
\* (after the iApp filter), the names passed to delete are A \ D, to create
\* D \ A, to update the names in both; delete and create, and create and
\* update, share no name.
C8_DiffCorrect ==
    /\ (pc = "iapp" \/ ListsComputed) =>
          LET D == Range(marathon_iapp_list(config, part))
              A == Range(work.f5i)
          IN /\ Exactly("iapp_delete", "idel", A \ D)
             /\ Exactly("iapp_create", "iadd", D \ A)
             /\ Exactly("iapp_update", "iupd", D \cap A)
             /\ Issued("iapp_delete") \cap Issued("iapp_create") = {}
             /\ Issued("iapp_create") \cap Issued("iapp_update") = {}
    /\ ListsComputed =>
          LET D == Range(marathon_virtual_list(config, part))
              AP == Range(work.f5p)
              AV == Range(work.f5v)
          IN /\ Exactly("pool_delete", "pdel", AP \ D)
             /\ Exactly("pool_create", "padd", D \ AP)
             /\ Exactly("pool_update", "pupd", D \cap AP)
             /\ Exactly("virtual_delete", "vdel", AV \ D)
             /\ Exactly("virtual_create", "vadd", D \ AV)
             /\ Exactly("virtual_update", "vupd", D \cap AV)
             /\ Issued("pool_delete") \cap Issued("pool_create") = {}
             /\ Issued("pool_create") \cap Issued("pool_update") = {}
             /\ Issued("virtual_delete") \cap Issued("virtual_create") = {}
             /\ Issued("virtual_create") \cap Issued("virtual_update") = {}
    /\ (ListsComputed /\ work.mpool # <<>>) =>
          LET D == config[work.mpool].nodes
              A == Range(work.f5m)
          IN /\ IssuedMembers("member_delete") \cup Range(work.mdel) = A \ D
             /\ IssuedMembers("member_create") \cup Range(work.madd) = D \ A
             /\ IssuedMembers("member_update") \cup Range(work.mupd) = D \cap A
             /\ Completed =>
                   /\ IssuedMembers("member_delete") = A \ D
                   /\ IssuedMembers("member_create") = D \ A
                   /\ IssuedMembers("member_update") = D \cap A
             /\ IssuedMembers("member_delete") \cap IssuedMembers("member_create") = {}
             /\ IssuedMembers("member_create") \cap IssuedMembers("member_update") = {}

\* A completed pass that deleted a virtual server and its pool and, for a pool
\* it kept, created one member and deleted another.
C8_Witness ==
    /\ Completed
    /\ \E i, j \in 1..Len(ops) : ops[i].op = "virtual_delete" /\ ops[j].op = "pool_delete"
    /\ Issued("virtual_update") # {}
    /\ IssuedMembers("member_create") # {}
    /\ IssuedMembers("member_delete") # {}

Allowed(p) == p # "" /\ ("*" \in Range(partitions) \/ p \in Range(partitions))
\* The name a builder gives the entry of an input record.
NameOf(x) == IF hp.cloud = "marathon" THEN FrontendName(x) ELSE KubernetesName(x)
\* The applications the loop of the builder is done with.
Handled == {hp.apps[i] : i \in 1..(IF hp.at = 0 THEN Len(hp.apps) ELSE hp.at - 1)}

\* C10: every entry of the desired model has a partition that is not empty and
\* that the partition list holds, or the list holds '*'; under the list
\* ['prod'] no entry has the partition 'dev', under a list with '*' an
\* application of partition 'dev' with an address or an iApp (and, for the
\* Marathon builder without iApp, valid labels) has its entry;
\* and no exception leaves has_partition, whatever the list and the
\* application's partition.
C10_ExclusionPolicy ==
    /\ ~hp.raised
    /\ \A n \in DOMAIN hp.out : Allowed(hp.out[n].partition)
    /\ partitions = <<"prod">> => \A n \in DOMAIN hp.out : hp.out[n].partition # "dev"
    /\ "*" \in Range(partitions) =>
          \A x \in Handled :
              (x.partition = "dev" /\ (x.bindAddr # "" \/ x.iapp # "")
                    /\ (hp.cloud = "marathon" /\ x.iapp = "" => is_label_data_valid(x)))
                  => NameOf(x) \in DOMAIN hp.out

\* The builder returned under ['*'] an entry of partition 'dev' and left out
\* an application without partition.
C10_Witness ==
    /\ hp.at = 0 /\ hp.apps # <<>>
    /\ partitions = <<"*">>
    /\ \E n \in DOMAIN config : config[n].partition = "dev"
    /\ \E x \in Handled : x.partition = "" /\ NameOf(x) \notin DOMAIN config


\* The number of operations op issued in the pass.
Calls(op) == Cardinality({i \in 1..Len(ops) : ops[i].op = op})
OpsNamed(names) == {i \in 1..Len(ops) : ops[i].op \in names}

\* C11: under ['prod'] the two applications give a desired model of one
\* service, the one of partition prod, with two members; the pass over the
\* empty partition prod has no delete, update or health-monitor operation in
\* its lists, and it ends returning False, having issued one pool create, one
\* virtual-server create and two member creates, no other create, no delete,
\* no update, and having deleted no node.
C11_ScenarioOperations ==
    /\ (hp.at = 0 /\ hp.input # <<>>) =>
          /\ DOMAIN config = {N1}
          /\ config[N1].partition = "prod"
          /\ config[N1].iapp = "none"
          /\ config[N1].nodes = {MemberName(1, MemberPort), MemberName(2, MemberPort)}
    /\ ListsComputed =>
          \A f \in {"idel", "iadd", "iupd", "vdel", "pdel", "hdel", "hadd", "hupd",
                    "pupd", "vupd"} : work[f] = <<>>
    /\ Ended =>
          /\ result = "False"
          /\ Calls("pool_create") = 1
          /\ Calls("virtual_create") = 1
          /\ Calls("member_create") = 2
          /\ OpsNamed({"healthcheck_create", "healthcheck_delete", "healthcheck_update",
                       "iapp_create", "iapp_delete", "iapp_update",
                       "pool_delete", "virtual_delete", "member_delete", "node_delete",
                       "pool_update", "virtual_update", "member_update",
                       "virtual_address_update", "node_modify"}) = {}


Built == hp.at = 0 /\ hp.input # <<>>

\* What the builder of the cloud returns for an input.
ConfigOf(input) ==
    IF hp.cloud = "marathon" THEN MarathonConfig(input, Range(partitions))
    ELSE KubernetesConfig(input, Range(partitions))

Reverse(q) == [i \in 1..Len(q) |-> q[Len(q) + 1 - i]]

\* The same records with their backends listed the other way round.
BackendsReversed(input) ==
    [i \in 1..Len(input) |->
        IF hp.cloud = "marathon" THEN [input[i] EXCEPT !.backends = Reverse(@)]
        ELSE [input[i] EXCEPT !.poolMemberAddrs = Reverse(@)]]

\* The input with its records listed in another order.
Reorderings(input) ==
    {[i \in 1..Len(input) |-> input[f[i]]] : f \in Permutations(1..Len(input))}

\* C12: the desired model a builder returned is the one it returns for the
\* same input again, for the input with its records in any other order, and
\* for the input with the backends of every record in the reverse order.
C12_BuilderDeterministic ==
    Built =>
        /\ ConfigOf(hp.input) = config
        /\ ConfigOf(BackendsReversed(hp.input)) = config
        /\ \A q \in Reorderings(hp.input) : ConfigOf(q) = config


\* The records the loop is done with, in the order it took them.
HandledSeq == SubSeq(hp.apps, 1, IF hp.at = 0 THEN Len(hp.apps) ELSE hp.at - 1)

\* The policy for a Marathon application: a managed partition, a bind address
\* or an iApp and, without iApp, valid labels.
AcceptedApp(app) ==
    /\ Allowed(app.partition)
    /\ app.bindAddr # "" \/ app.iapp # ""
    /\ app.iapp = "" =>
          /\ Lower(app.mode) \in {"tcp", "http", "udp"}
          /\ app.servicePort \in 1..65535
          /\ IsIpAddress(app.bindAddr)
          /\ app.balance \in lbmethods

AcceptedSvc(svc) ==
    /\ Allowed(svc.partition)
    /\ svc.bindAddr # "" \/ svc.iapp # ""

C15_BalanceSupported ==
    \A n \in DOMAIN hp.out :
        hp.out[n].iapp = "none" => hp.out[n].pool.loadBalancingMode \in lbmethods

\* The keys among virtual, pool and health that an entry carries with data.
Materialized(e) ==
    {k \in {"virtual", "pool", "health"} \cap DOMAIN e :
        k = "health" => e.health # <<>>}

\* C16: an entry of the dict of either builder with an iApp carries none of
\* virtual, pool and health data, and an entry without iApp carries virtual
\* and pool data.
C16_IappOrIndividual ==
    \A n \in DOMAIN hp.out :
        IF hp.out[n].iapp # "none"
        THEN Materialized(hp.out[n]) = {}
        ELSE {"virtual", "pool"} \subseteq Materialized(hp.out[n])

\* C17: the monitor of an accepted application with a health check has the
\* timeout (maxConsecutiveFailures - 1) * intervalSeconds + timeoutSeconds + 1
\* and the interval intervalSeconds; for 3, 5 and 10 the timeout is 21.
C17_HealthTimeout ==
    hp.cloud = "marathon" =>
        \A app \in Handled :
            (app.healthCheck # <<>> /\ FrontendName(app) \in DOMAIN hp.out
                  /\ hp.out[FrontendName(app)] = ServiceOf(app)) =>
                LET hc == app.healthCheck[1]
                    m == hp.out[FrontendName(app)].health[1]
                IN /\ Len(hp.out[FrontendName(app)].health) = 1
                   /\ m.timeout = (hc.maxConsecutiveFailures - 1) * hc.intervalSeconds
                                     + hc.timeoutSeconds + 1
                   /\ m.interval = hc.intervalSeconds
                   /\ (hc.maxConsecutiveFailures = 3 /\ hc.intervalSeconds = 5
                          /\ hc.timeoutSeconds = 10) => m.timeout = 21

\* The builder returned a monitor for the health check 3, 5, 10.
C17_Witness ==
    /\ Built /\ hp.cloud = "marathon"
    /\ \E n \in DOMAIN config :
          /\ Len(config[n].health) = 1
          /\ config[n].health[1].timeout = 21
          /\ config[n].health[1].interval = 5

\* The operations op1 of a partition all come before its operations op2.
Before(op1, op2) ==
    \A i, j \in 1..Len(ops) :
        (ops[i].part = ops[j].part /\ ops[i].op = op1 /\ ops[j].op = op2) => i < j

PoolOps == {"pool_delete", "pool_create", "pool_update"}

HealthDesired ==
    {n \in DOMAIN config :
        /\ config[n].partition = part
        /\ config[n].iapp = "none"
        /\ \E i \in 1..Len(config[n].health) : config[n].health[i].protocol # "absent"}

FirstOf(q) == {q[i][1] : i \in 1..Len(q)}

\* C19: with D the services of the partition that declare a health check with a
\* protocol and A the live monitors not owned by a desired iApp, the monitors
\* deleted are A \ D, monitors are created for D \ A, the names considered for
\* update are D \cap A, and no name is both deleted and considered for update.
C19_HealthDiff ==
    ListsComputed =>
        LET D == HealthDesired
            A == Range(work.f5h)
        IN /\ Issued("healthcheck_delete") \cup FirstOf(work.hdel) = A \ D
           /\ FirstOf(work.hadd) \subseteq D \ A
           /\ \A i \in 1..Len(ops) :
                 (ops[i].op = "healthcheck_create" /\ ops[i].part = part) =>
                    \E n \in D \ A : \E k \in 1..Len(config[n].health) :
                        config[n].health[k].name = ops[i].name
           /\ Range(work.healthcheck_intersect) = D \cap A
           /\ (Issued("healthcheck_delete") \cup FirstOf(work.hdel))
                 \cap Range(work.healthcheck_intersect) = {}

\* The create calls of the pass for the monitors of service n: those issued and
\* those the loop has still to issue.
CreatesFor(n) ==
    Cardinality({i \in 1..Len(ops) :
                    /\ ops[i].op = "healthcheck_create" /\ ops[i].part = part
                    /\ \E k \in 1..Len(config[n].health) :
                          config[n].health[k].name = ops[i].name})
       + Cardinality({i \in 1..Len(work.hadd) : work.hadd[i][1] = n})

\* C20: a service whose monitors are to be added gets one healthcheck_create
\* call for each monitor it declares: never more calls than monitors, and as
\* many as monitors when the pass completes.
C20_OneCreatePerMonitor ==
    ListsComputed =>
        \A n \in HealthDesired \ Range(work.f5h) :
            /\ CreatesFor(n) <= Len(config[n].health)
            /\ Completed => CreatesFor(n) = Len(config[n].health)

IappOps == {"iapp_delete", "iapp_create", "iapp_update"}

\* C21: once the iApp phase of a partition is over, every iApp both desired and
\* live has received exactly one update, a write; the deleted iApps are the
\* live ones not desired and the created ones the desired ones not live; every
\* desired iApp holds one row [address, port, '0'] per member of its service;
\* and the iApp operations of the partition precede its health-monitor, pool
\* and virtual-server operations.
C21_IappPhase ==
    ListsComputed =>
        LET D == Range(marathon_iapp_list(config, part))
            A == Range(work.f5i)
        IN /\ \A n \in D \cap A :
                 LET u == {i \in 1..Len(ops) : /\ ops[i].op = "iapp_update"
                                               /\ ops[i].part = part
                                               /\ ops[i].name = n}
                 IN Cardinality(u) = 1 /\ \A i \in u : ops[i].w
           /\ Issued("iapp_update") = D \cap A
           /\ Issued("iapp_delete") = A \ D
           /\ Issued("iapp_create") = D \ A
           /\ \A n \in D :
                 /\ <<part, n>> \in DOMAIN lb.iapps
                 /\ lb.iapps[<<part, n>>].rows
                       = {<<MemberHost(m), m[2], "0">> : m \in config[n].nodes}
                 /\ Cardinality(lb.iapps[<<part, n>>].rows) = Cardinality(config[n].nodes)
           /\ \A i, j \in 1..Len(ops) :
                 (/\ ops[i].part = part /\ ops[j].part = part
                  /\ ops[i].op \in IappOps
                  /\ PhaseRank(ops[j].op) \in {2, 3, 4}) => i < j

\* A pass that follows a pass that returned False has updated an iApp again.
C21_Witness ==
    /\ Completed /\ prevOK /\ part # "none"
    /\ \E i, j \in 1..Len(ops) :
          /\ ops[i].op = "iapp_update" /\ ops[i].w
          /\ ops[j].part = ops[i].part /\ PhaseRank(ops[j].op) \in {2, 3, 4}

\* The resources of collection c whose name starts with the name of a desired
\* iApp of their partition are in d as they are in c.
Untouched(c, d) ==
    \A k \in DOMAIN c :
        OwnedByIapp(k[2], k[1]) => (k \in DOMAIN d /\ d[k] = c[k])

\* C22: no step deletes or changes a live virtual server, pool or health
\* monitor whose name is prefixed by the name of a desired iApp of its
\* partition.
C22_IappOwnedUntouched ==
    [][/\ Untouched(lb.virtuals, lb'.virtuals)
       /\ Untouched(lb.pools, lb'.pools)
       /\ Untouched(lb.http, lb'.http)
       /\ Untouched(lb.tcp, lb'.tcp)]_vars

\* The health entry is of a protocol other than http and tcp.
OtherProtocol(item) == item.protocol \notin {"http", "tcp", "absent"}

\* C23: when the next health-monitor create or update is for an entry whose
\* protocol is neither http nor tcp, the step ends the pass with an exception
\* that leaves regenerate_config_f5, and creates or modifies nothing.
C23_UnsupportedProtocolIsFatal ==
    [][(\/ Ready("hadd") /\ OtherProtocol(Head(work.hadd)[2])
        \/ Ready("hupd") /\ OtherProtocol(Head(work.hupd)[2]))
          => /\ result' = "raise"
             /\ err' = "Exception"
             /\ pc' = "idle"
             /\ lb' = lb
             /\ ops' = ops]_vars

\* The create of a monitor of protocol command has ended the pass.
C23_Witness ==
    /\ result = "raise" /\ err = "Exception"
    /\ work.hadd # <<>> /\ OtherProtocol(Head(work.hadd)[2])
    /\ \A f \in {"vdel", "pdel", "hdel"} : work[f] = <<>>

\* The examinations of node name of the partition in hand that the pass logged.
Examined(name) ==
    {i \in 1..Len(ops) : /\ ops[i].op \in {"node_check", "node_modify"}
                         /\ ops[i].part = part /\ ops[i].name = name}

ExaminedOnce == \A k \in DOMAIN lb.nodes : k[1] = part => Cardinality(Examined(k[2])) <= 1

\* The nodes a step of cleanup_nodes changed.
NodesChanged ==
    {k \in DOMAIN lb.nodes \cap DOMAIN lb'.nodes : pc = "cleanup" /\ lb'.nodes[k] # lb.nodes[k]}

\* C24 as stated: cleanup_nodes changes a node only when it is administratively
\* down or its session is disabled, setting it to user-up and user-enabled, and
\* examines a node at most once.
C24_ReenableOnlyAdminDown ==
    /\ []ExaminedOnce
    /\ [][\A k \in NodesChanged :
             /\ lb.nodes[k].state = "user-down"
                   \/ lb.nodes[k].session \in {"user-disabled", "monitor-disabled"}
             /\ lb'.nodes[k] = UserUp(FALSE)]_vars

\* C24, amended: cleanup_nodes changes a node only when it is not both up or
\* unchecked and of an enabled session, setting it to user-up and user-enabled;
\* it examines a node at most once; and when it returns every node the members
\* of the partition's pools refer to is up or unchecked with an enabled session.
C24_ReenableUnlessUpAndEnabled ==
    /\ []ExaminedOnce
    /\ [][\A k \in NodesChanged :
             /\ ~(/\ lb.nodes[k].state \in {"up", "unchecked"}
                  /\ lb.nodes[k].session \in {"user-enabled", "monitor-enabled"})
             /\ lb'.nodes[k] = UserUp(FALSE)]_vars
    /\ [](CleanupReturned =>
            \A k \in DOMAIN lb.nodes :
                (k[1] = part /\ k[2] \in ReferencedHosts(lb, part)) =>
                    /\ lb.nodes[k].state \in {"up", "unchecked"}
                    /\ lb.nodes[k].session \in {"user-enabled", "monitor-enabled"})

\* A cleanup has returned after it set a node to user-up and, seeing the node
\* again at a second member, left it alone.
C24_Witness ==
    /\ CleanupReturned
    /\ \E k \in DOMAIN lb.nodes :
          /\ k[1] = part
          /\ Cardinality(Examined(k[2])) = 1
          /\ \A i \in Examined(k[2]) : ops[i].op = "node_modify"
          /\ Cardinality({x \in DOMAIN lb.pools :
                             /\ x[1] = part
                             /\ \E m \in DOMAIN lb.members[x] : MemberHost(m[2]) = k[2]}) >= 2

\* C25: pool_update of a pool both desired and live, whose live data are the
\* desired data, writes nothing to the load balancer; and a pool created in a
\* pass is not updated in it.
C25_PoolUpdateOnChange ==
    /\ [](Issued("pool_create") \cap Issued("pool_update") = {})
    /\ [][Ready("pupd") =>
             LET n == Head(work.pupd)
                 k == <<part, n>>
             IN (k \in DOMAIN lb.pools /\ lb.pools[k] = StoredPool(config[n].pool)) =>
                    /\ lb' = lb
                    /\ Writes(ops') = Writes(ops)]_vars

\* The step is a call of virtual_update that returned.
VirtualUpdateReturned == Ready("vupd") /\ err' = "none"

\* C26: a virtual_update that returns has left the virtual address of the
\* service existing and enabled, creating it when absent, enabling it when
\* disabled and leaving it alone when enabled; and when the desired fields of
\* the virtual server equal the live ones and the live profiles are the desired
\* profiles in whatever order, it has not modified the virtual server.
C26_VirtualUpdateOnChange ==
    [][VirtualUpdateReturned =>
          LET n == Head(work.vupd)
              k == <<part, n>>
              va == <<part, config[n].virtual_address>>
              d == config[n].virtual
          IN /\ va \in DOMAIN lb'.vaddrs /\ lb'.vaddrs[va] = "yes"
             /\ \A x \in DOMAIN lb.vaddrs : x # va => lb'.vaddrs[x] = lb.vaddrs[x]
             /\ DOMAIN lb'.vaddrs = DOMAIN lb.vaddrs \cup {va}
             /\ (va \in DOMAIN lb.vaddrs /\ lb.vaddrs[va] = "yes") =>
                   \A i \in 1..Len(ops') :
                       (i > Len(ops) /\ ops'[i].op \in {"virtual_address_create",
                                                        "virtual_address_update"})
                          => ~ops'[i].w
             /\ (/\ k \in DOMAIN lb.virtuals
                 /\ d.enabled = lb.virtuals[k].enabled
                 /\ d.ipProtocol = lb.virtuals[k].ipProtocol
                 /\ d.destination = lb.virtuals[k].destination
                 /\ d.pool = lb.virtuals[k].pool
                 /\ Len(d.profiles) = Len(lb.virtuals[k].profiles)
                 /\ Range(d.profiles) = Range(lb.virtuals[k].profiles)) =>
                    /\ lb'.virtuals = lb.virtuals
                    /\ ops'[Len(ops')] = E("virtual_update", part, n, FALSE)]_vars

\* A virtual_update has enabled the disabled virtual address and left alone the
\* virtual server whose profiles are the desired ones in another order.
C26_Witness ==
    \E i \in 1..Len(ops) :
        /\ i > 1
        /\ ops[i].op = "virtual_update" /\ ~ops[i].w /\ ops[i].part = part
        /\ ops[i - 1].op = "virtual_address_update" /\ ops[i - 1].w
        /\ <<part, ops[i].name>> \in DOMAIN lb.virtuals
        /\ Len(config[ops[i].name].virtual.profiles) = 2
        /\ lb.virtuals[<<part, ops[i].name>>].profiles # config[ops[i].name].virtual.profiles

Healthy(obj) ==
    obj.state \in {"up", "unchecked"} /\ obj.session \in {"user-enabled", "monitor-enabled"}

\* The step is a call of member_update that returned.
MemberUpdateReturned ==
    /\ LoopsDone /\ work.mdel = <<>> /\ work.madd = <<>> /\ work.mupd # <<>>
    /\ err' = "none"

Resolves(h) == h # 99

\* The applications with the backends left out whose host does not resolve.
WithoutUnresolved(apps) ==
    [i \in 1..Len(apps) |->
        [apps[i] EXCEPT !.backends = Filter(@, {h \in Range(@) : Resolves(h)})]]

\* C28: every accepted application is in the dict of the Marathon builder
\* whether its backends resolve or not; the members of its entry are those of
\* its backends whose host resolves; and the dict is the one built from the
\* same applications without the backends that do not resolve.
C28_UnresolvedBackendDropped ==
    hp.cloud = "marathon" =>
        /\ \A app \in Handled :
              AcceptedApp(app) =>
                 /\ FrontendName(app) \in DOMAIN hp.out
                 /\ hp.out[FrontendName(app)] = ServiceOf(app) =>
                       hp.out[FrontendName(app)].nodes =
                          {<<IF h = 10 THEN 1 ELSE h, MemberPort>> :
                              h \in {x \in Range(app.backends) : Resolves(x)}}
        /\ hp.out = MarathonFold(Empty, WithoutUnresolved(HandledSeq), Range(partitions))

\* The builder returned two entries, one of an application with a backend that
\* resolves and one that does not, holding the member of the first alone.
C28_Witness ==
    /\ Built /\ hp.cloud = "marathon"
    /\ Cardinality(DOMAIN config) = 2
    /\ \E app \in Handled :
          /\ app.backends = <<1, 99>>
          /\ FrontendName(app) \in DOMAIN config
          /\ config[FrontendName(app)].nodes = {<<1, MemberPort>>}

\* The profile a reference stands for, read off its slashes: one slash gives
\* the partition before it and the name after it, anything else no profile.
ExpectedSsl(ref) ==
    LET slashes == {i \in 1..Len(ref) : ref[i] = "/"} IN
    IF Cardinality(slashes) # 1 THEN <<>>
    ELSE LET i == CHOOSE j \in slashes : TRUE IN
         << [partition |-> IF i = 1 THEN "" ELSE ref[1],
             name |-> IF i = Len(ref) THEN "" ELSE ref[i + 1]] >>

ExpectedImplicit(mode) ==
    IF Lower(mode) = "http" THEN << [partition |-> "Common", name |-> "http"] >>
    ELSE IF Lower(mode) = "tcp" THEN << [partition |-> "Common", name |-> "tcp"] >>
    ELSE <<>>

\* C29: the profile list of the entry of a record is the profile of its SSL
\* reference, when the reference has two parts, followed by the Common http
\* profile for mode http, the Common tcp profile for mode tcp and nothing
\* otherwise; and an accepted record is in the dict whatever its reference.
C29_ProfileSelection ==
    \A x \in Handled :
        LET n == NameOf(x)
            accepted == IF hp.cloud = "marathon" THEN AcceptedApp(x) ELSE AcceptedSvc(x)
            entry == IF hp.cloud = "marathon" THEN ServiceOf(x) ELSE KubernetesService(x)
        IN accepted =>
              /\ n \in DOMAIN hp.out
              /\ (hp.out[n] = entry /\ (hp.cloud = "kubernetes" => x.iapp = "")) =>
                    hp.out[n].virtual.profiles = ExpectedSsl(x.profile) \o ExpectedImplicit(x.mode)

\* The builder returned an entry with an SSL profile before the tcp profile and
\* the entry of a record whose reference has three parts, without SSL profile.
C29_Witness ==
    /\ Built
    /\ \A n \in DOMAIN config : config[n].iapp = "none"
    /\ \E n \in DOMAIN config :
          config[n].virtual.profiles = <<SslProfile, [partition |-> "Common", name |-> "tcp"]>>
    /\ \E x \in Handled :
          /\ x.profile = <<"/", "Common", "/", "clientssl">>
          /\ NameOf(x) \in DOMAIN config
          /\ Len(config[NameOf(x)].virtual.profiles) = 1


\* The partitions the configuration selects: with the wildcard the folders of
\* the load balancer other than Common, / and the application folders,
\* without it the configured names.
ResolvedSet ==
    IF "*" \in Range(partitions)
    THEN {f \in Range(lb.folders) : f \notin {"Common", "/"} /\ ~IsAppFolder(f)}
    ELSE Range(partitions)

\* A pass starts with the selected partitions, each once, takes them one at a
\* time from the head of the list, and returns False only when none is left;
\* every operation it logs is in a selected partition.
PartitionsResolved ==
    /\ [](/\ Completed => plist = <<>>
          /\ \A i \in 1..Len(ops) : ops[i].part \in ResolvedSet)
    /\ [][/\ (pc = "idle" /\ pc' # "idle") =>
                 /\ Range(plist') = ResolvedSet
                 /\ Len(plist') = Cardinality(ResolvedSet)
          /\ plist' # plist =>
                 \/ pc = "idle"
                 \/ plist # <<>> /\ part' = Head(plist) /\ plist' = Tail(plist)
          /\ (part' # part /\ part' # "none") =>
                 plist # <<>> /\ part' = Head(plist) /\ plist' = Tail(plist)]_vars

LbCollections == {"iapps", "http", "tcp", "pools", "members", "virtuals", "vaddrs", "nodes"}

\* The objects of collection c of load balancer b in partitions other than p.
OutsidePartition(b, p, c) == [k \in {x \in DOMAIN b[c] : x[1] # p} |-> b[c][k]]

\* The reconciliation of one partition leaves the objects of every other
\* partition as they are.
PartitionsIndependent ==
    [][\A c \in LbCollections :
          OutsidePartition(lb', part', c) = OutsidePartition(lb, part', c)]_vars

\* C30: with '*' among the configured partitions the pass reconciles exactly
\* the partitions of the load balancer that are not Common, not / and do not
\* end in .app, without it exactly the configured partitions, and the
\* reconciliation of a partition changes nothing in another partition.
C30_PartitionResolution == PartitionsResolved /\ PartitionsIndependent

\* C31: the desired model is read-only during a pass: no step of
\* regenerate_config_f5 and _apply_config, whether it succeeds, fails or ends
\* the pass, adds, removes or changes an entry of it.
C31_DesiredModelReadOnly ==
    [][(pc # "idle" \/ pc' # "idle") => config' = config]_vars

\* A pass over a desired model with a health monitor has written to the load
\* balancer and then ended, by failure or by completion.
C31_Witness ==
    /\ pc = "idle" /\ result \in {"True", "False"}
    /\ \E n \in DOMAIN config : config[n].health # <<>>
    /\ \E i \in 1..Len(ops) : ops[i].w

\* The operations of the node cleanup.
NodeOps == {"node_check", "node_modify", "node_delete"}

\* Every member create is logged when the pool it names is in the partition.
MembersAfterPool ==
    [][\A i \in Len(ops) + 1..Len(ops') :
          ops'[i].op = "member_create" => <<part, work.mpool>> \in DOMAIN lb.pools]_vars

\* C32: in a partition's pass every health-monitor create precedes every pool
\* create and every pool create every virtual-server create; a member is
\* created only when its pool exists; every virtual-server delete precedes
\* every pool delete and every pool delete every health-monitor delete; the
\* node cleanup comes after every other operation of the partition.
C32_DependencyOrder ==
    /\ [](/\ Before("healthcheck_create", "pool_create")
          /\ Before("pool_create", "virtual_create")
          /\ Before("virtual_delete", "pool_delete")
          /\ Before("pool_delete", "healthcheck_delete")
          /\ \A i, j \in 1..Len(ops) :
                (ops[i].part = ops[j].part /\ ops[i].op \notin NodeOps
                    /\ ops[j].op \in NodeOps) => i < j)
    /\ MembersAfterPool

\* A completed pass deleted a virtual server, a pool and a health monitor and
\* created a health monitor, a pool, a virtual server and a member in one
\* partition, and cleaned up its nodes.
C32_Witness ==
    /\ Completed
    /\ \E p \in Range(partitions) :
          \A o \in {"virtual_delete", "pool_delete", "healthcheck_delete",
                    "healthcheck_create", "pool_create", "virtual_create",
                    "member_create", "node_check"} :
              \E i \in 1..Len(ops) : ops[i].op = o /\ ops[i].part = p

\* The health monitor the delete loop is about to delete.
NextHealthDelete == <<part, Head(work.hdel)[1]>>

\* C33: a health monitor is deleted only when no pool on the load balancer
\* references it, and the pass that deletes the monitor of a desired service
\* has taken the reference out of the service's pool beforehand.
C33_MonitorDeletedUnreferenced ==
    /\ [](Ready("hdel") => ~MonitorReferenced(lb, NextHealthDelete))
    /\ [](\A i \in 1..Len(ops) :
             (ops[i].op = "healthcheck_delete" /\ ops[i].name \in DOMAIN config
                 /\ config[ops[i].name].partition = ops[i].part
                 /\ <<ops[i].part, ops[i].name>> \in DOMAIN lb.pools)
               => ~\E j \in i + 1..Len(ops) :
                      ops[j].op = "pool_update" /\ ops[j].part = ops[i].part
                          /\ ops[j].name = ops[i].name /\ ops[j].w)

\* The pool, the virtual server and the health monitor that the create loops
\* are about to create are not on the load balancer.
NextPoolAbsent == Ready("padd") => <<part, Head(work.padd)>> \notin DOMAIN lb.pools
NextVirtualAbsent == Ready("vadd") => <<part, Head(work.vadd)>> \notin DOMAIN lb.virtuals
NextMonitorAbsent ==
    Ready("hadd") =>
        LET item == Head(work.hadd)[2] IN
        /\ item.protocol = "http" => <<part, item.name>> \notin DOMAIN lb.http
        /\ item.protocol = "tcp" => <<part, item.name>> \notin DOMAIN lb.tcp

\* C34: pool_create, virtual_create and healthcheck_create are issued for a
\* name only when the partition holds no resource of that kind with that name,
\* also for a service whose name starts with the name of a desired iApp of
\* its partition.
C34_CreateOnlyAbsent == NextPoolAbsent /\ NextVirtualAbsent /\ NextMonitorAbsent

\* C35: every service of the desired model, which the builder put there
\* because has_partition accepted its partition, lies in a partition that the
\* pass reconciles: when the pass has returned False, the partition of every
\* service is among those get_partitions resolved.
C35_ServicePartitionsReconciled ==
    Completed =>
        \A n \in DOMAIN config :
            /\ has_partition(Range(partitions), config[n].partition)
            /\ config[n].partition \in Managed

\* The records the builder is done with that pass the skip policy.
AcceptedRecords ==
    {x \in Handled : IF hp.cloud = "marathon" THEN AcceptedApp(x) ELSE AcceptedSvc(x)}

\* C36: the dict holds one entry for every accepted service, a service being
\* told from another by its partition and name, and every accepted record
\* finds under its name an entry of its own partition.
C36_NoServiceLost ==
    ~hp.raised =>
        /\ Cardinality(DOMAIN hp.out)
              = Cardinality({<<x.partition, NameOf(x)>> : x \in AcceptedRecords})
        /\ \A x \in AcceptedRecords :
              NameOf(x) \in DOMAIN hp.out /\ hp.out[NameOf(x)].partition = x.partition

\* The load balancer holds, in every managed partition, exactly the desired
\* virtual servers and pools, for every desired pool exactly its members, and
\* every declared health monitor under its kind.
HoldsDesired ==
    /\ \A p \in Managed :
          /\ NameSet(lb.virtuals, p) = DesiredNames(p)
          /\ NameSet(lb.pools, p) = DesiredNames(p)
    /\ \A n \in DOMAIN config :
          (config[n].iapp = "none" /\ config[n].partition \in Managed) =>
              LET p == config[n].partition IN
              /\ <<p, n>> \in DOMAIN lb.members
              /\ {m[2] : m \in DOMAIN lb.members[<<p, n>>]} = config[n].nodes
              /\ \A i \in 1..Len(config[n].health) :
                    LET item == config[n].health[i] IN
                    /\ item.protocol = "http" => <<p, item.name>> \in DOMAIN lb.http
                    /\ item.protocol = "tcp" => <<p, item.name>> \in DOMAIN lb.tcp

\* C37: when from some pass on no adapter call ends with a connection error,
\* eventually a pass returns False with the load balancer holding the desired
\* virtual servers, pools, members and health monitors.
C37_ConvergesAfterFailure ==
    <>[][~TransientFailure]_vars => <>(Completed /\ HoldsDesired)

\* C38: when the update loop comes to a desired monitor of kind http or tcp
\* whose name get_healthcheck_list reported, under either kind, the update
\* finds the live monitor and does not end the pass.
C38_UpdateUnderStoredKind ==
    Ready("hupd") =>
        LET hc == Head(work.hupd)[1]
            item == Head(work.hupd)[2]
        IN (/\ item.name = hc
            /\ item.protocol \in {"http", "tcp"}
            /\ <<part, hc>> \in DOMAIN lb.http \cup DOMAIN lb.tcp)
              => healthcheck_update(lb, part, hc, item).err = "none"

\* The names of the health monitors that the services of partition p declare.
DeclaredMonitors(p) ==
    UNION {{config[n].health[i].name : i \in 1..Len(config[n].health)} :
              n \in {x \in DOMAIN config : config[x].partition = p /\ config[x].iapp = "none"}}

\* C39: the update loop compares and writes the data of a declared monitor
\* with the live monitor of that monitor's own name, and the delete loop
\* deletes no live monitor whose name a desired service still declares.
C39_MonitorsByOwnName ==
    /\ Ready("hupd") => Head(work.hupd)[1] = Head(work.hupd)[2].name
    /\ Ready("hdel") => Head(work.hdel)[1] \notin DeclaredMonitors(part)
    /\ \A i \in 1..Len(ops) :
          /\ ops[i].op = "healthcheck_update" => ops[i].name[1] = ops[i].name[2]
          /\ ops[i].op = "healthcheck_delete" => ops[i].name \notin DeclaredMonitors(ops[i].part)

\* C40: after a pass that returned False, every desired individually managed
\* pool that was on the load balancer when the partition's lists were read
\* has the desired monitor reference and the desired load-balancing mode.
C40_ExistingPoolsUpdated ==
    Completed =>
        \A n \in DOMAIN config :
            (config[n].iapp = "none" /\ config[n].partition \in Managed
                /\ <<config[n].partition, n>> \in DOMAIN lb.pools) =>
                LET live == lb.pools[<<config[n].partition, n>>] IN
                /\ live.hasMonitor = (config[n].pool.monitor # <<>>)
                /\ live.hasMonitor => Strip(live.monitor) = config[n].pool.monitor
                /\ live.loadBalancingMode = config[n].pool.loadBalancingMode

=============================================================================
